---- MODULE Spec2Model ----
(***************************************************************************)
(* Pottery catalogue backend: the document store (Firestore) holding item  *)
(* documents with an embedded photos array, the blob store (GCS) holding   *)
(* photo bytes, the service functions of firestore_service.py and          *)
(* gcs_service.py, and the request handlers of routers/photos.py and       *)
(* routers/items.py that sequence them.                                    *)
(*                                                                         *)
(* Every "await" on a store call is one step of a worker, so the steps of  *)
(* two requests interleave exactly where the event loop can switch.        *)
(***************************************************************************)
EXTENDS Integers, Sequences, FiniteSets, TLC

\* ------------------------------------------------------------------ bounds
\* number of photo ids uuid4 hands out (upload_photo) / callers may name
MaxPhotos == 2
\* number of store calls that may raise an unexpected exception
MaxFaults == 2
\* number of requests started in one behaviour
MaxRequests == 4

\* ------------------------------------------------------------ value spaces
Procs == {"w1", "w2"}
ItemIds == {"i1", "i2"}
Users == {"u1", "u2"}
\* user_id = None: the unscoped (administrative) call of a service function
None == "None"
PhotoIds == 1..MaxPhotos
Stages == {"Greenware", "Bisque"}
Names == {"Mug", "Bowl"}
\* PotteryItemBase.note, an optional field of the item
Notes == {"glazed"}
\* a key a stored photo dict does not have
Absent == "absent"

\* mutation of _get_gcs_path: the item id does not take part in the path
GcsPathFlat(item_id, photo_id) == <<"i1", photo_id>>

\* items/{item_id}/{photo_id}{extension}: the extension does not take part in
\* any decision, the path is the pair it is derived from
_get_gcs_path(item_id, photo_id) == <<item_id, photo_id>>

\* ------------------------------------------------------------------ models
\* models.Photo: the fields a Photo instance carries.  pydantic ignores the
\* keys given to the constructor that are not fields of the model, so a Photo
\* built from a stored dict carries neither uploadedTimezone nor isPrimary.
Photo(d) == [id |-> d.id, gcsPath |-> d.gcsPath, stage |-> d.stage]

\* Photo.model_dump() extended with the keys the caller adds afterwards
StoredPhoto(dump, tz, prim) ==
    [id |-> dump.id, gcsPath |-> dump.gcsPath, stage |-> dump.stage,
     uploadedTimezone |-> tz, isPrimary |-> prim]

\* [Photo(**p) for p in item_data.get("photos", [])]
PhotoList(dicts) == [k \in 1..Len(dicts) |-> Photo(dicts[k])]

\* a document that does not exist
NoDoc == [exists |-> FALSE, user_id |-> None, name |-> "Mug", note |-> Absent,
          photos |-> <<>>]

\* no item read yet
NoItem == [found |-> FALSE, photos |-> <<>>]

\* ------------------------------------------------------------------- state
VARIABLES
    docs,        \* Firestore: item id -> document (or NoDoc)
    blobs,       \* GCS: the set of paths at which a blob exists
    fsClient,    \* firestore_service._db / _initialization_error
    gcsClient,   \* gcs_service._storage_client / _initialization_error
    nextItem,    \* document ids handed out by items_collection.document()
    nextPhoto,   \* photo ids handed out by uuid4 in upload_photo
    faults,      \* store calls that raised so far
    nreq,        \* requests started so far
    pc,          \* worker -> the store call it is suspended on
    req,         \* worker -> the request it serves
    loc,         \* worker -> the locals of the handler / service function
    res,         \* worker -> the outcome of its last finished request
    calls        \* worker -> service functions the request has called

vars == <<docs, blobs, fsClient, gcsClient, nextItem, nextPhoto, faults, nreq,
          pc, req, loc, res, calls>>

ItemOrder == <<"i1", "i2">>

NoReq == [op |-> "none", item |-> "i1", user |-> None, photo |-> 0,
          stage |-> "Greenware", name |-> "Mug", ctype |-> "image/jpeg",
          note |-> Absent, case |-> "none", n0 |-> 0, f0 |-> 0, retry |-> "none",
          paths |-> <<>>]

NoLoc == [list |-> <<>>, pid |-> 0, path |-> <<"i1", 0>>, out |-> "none"]

Init ==
    /\ docs = [i \in ItemIds |-> NoDoc]
    /\ blobs = {}
    /\ fsClient = "uninit"
    /\ gcsClient = "uninit"
    /\ nextItem = 1
    /\ nextPhoto = 1
    /\ faults = 0
    /\ nreq = 0
    /\ pc = [p \in Procs |-> "idle"]
    /\ req = [p \in Procs |-> NoReq]
    /\ loc = [p \in Procs |-> NoLoc]
    /\ res = [p \in Procs |-> "none"]
    /\ calls = [p \in Procs |-> {}]

\* ----------------------------------------------------------- pure helpers
\* Python truthiness of a user_id argument: None and "" are both falsy
Truthy(user_id) == user_id \notin {None, ""}

\* mutation of NotOwner: the owner of the document is not compared
NotOwnerNever(d, user_id) == FALSE

\* "if user_id and item_data.get("user_id") != user_id": the document belongs
\* to somebody else
NotOwner(d, user_id) == Truthy(user_id) /\ d.user_id # user_id

\* mutation of ItemFrom: any stored document is returned
ItemFromAny(d, user_id) ==
    IF d.exists THEN [found |-> TRUE, photos |-> PhotoList(d.photos)] ELSE NoItem

\* get_item_by_id on a document snapshot: the PotteryItem or None (NoItem)
ItemFrom(d, user_id) ==
    IF d.exists /\ ~NotOwner(d, user_id)
    THEN [found |-> TRUE, photos |-> PhotoList(d.photos)]
    ELSE NoItem

\* any(photo.id == photo_id for photo in photos)
HasId(photos, photo_id) == \E k \in 1..Len(photos) : photos[k].id = photo_id

\* the first photo with that id (_get_photo_from_item_or_404)
FirstWithId(photos, photo_id) ==
    photos[CHOOSE k \in 1..Len(photos) :
              /\ photos[k].id = photo_id
              /\ \A j \in 1..(k - 1) : photos[j].id # photo_id]

\* mutation of ArrayUnion: the field is set to the one new element
ArraySet(photos, photo_data) == <<photo_data>>

\* firestore.ArrayUnion([photo_data]): appended unless an equal element is there
ArrayUnion(photos, photo_data) ==
    IF \E k \in 1..Len(photos) : photos[k] = photo_data
    THEN photos
    ELSE Append(photos, photo_data)

\* mutation of FilterOut: the kept entries are written back from the Photo
\* models instead of the raw dicts
FilterOutModels(photos, photo_id) ==
    LET kept == SelectSeq(photos, LAMBDA e : e.id # photo_id)
    IN  [k \in 1..Len(kept) |-> StoredPhoto(Photo(kept[k]), Absent, Absent)]

\* mutation of FilterOut: no dict is skipped
FilterOutNothing(photos, photo_id) == photos

RECURSIVE FilterOut(_, _)
\* remove_photo_from_item: every dict whose id is photo_id is skipped
FilterOut(photos, photo_id) ==
    IF photos = <<>> THEN <<>>
    ELSE IF Head(photos).id = photo_id
         THEN FilterOut(Tail(photos), photo_id)
         ELSE <<Head(photos)>> \o FilterOut(Tail(photos), photo_id)

\* mutation of PrimaryList: the else branch also writes True
PrimaryListAll(photos, photo_id) ==
    [k \in 1..Len(photos) |-> StoredPhoto(photos[k], Absent, "true")]

\* mutation of PrimaryList: only the named photo is touched, the others are
\* written back as dumped
PrimaryListKeep(photos, photo_id) ==
    [k \in 1..Len(photos) |->
        StoredPhoto(photos[k], Absent,
                    IF photos[k].id = photo_id THEN "true" ELSE Absent)]

\* set_primary_photo: the list written back, built from the Photo models
PrimaryList(photos, photo_id) ==
    [k \in 1..Len(photos) |->
        StoredPhoto(photos[k], Absent,
                    IF photos[k].id = photo_id THEN "true" ELSE "false")]

\* update_photo_details_in_item: the list written back, built from the models
DetailsList(photos, photo_id, stage) ==
    [k \in 1..Len(photos) |->
        StoredPhoto([photos[k] EXCEPT !.stage =
                        IF photos[k].id = photo_id THEN stage ELSE @],
                    Absent, Absent)]

\* mutation of PhotoData: the dump carries the isPrimary the handler passed
\* for a list without a primary
PhotoDataPrimary(photo) == StoredPhoto(photo, "UTC", "true")

\* add_photo_to_item: photo.model_dump() plus uploadedTimezone = "UTC"
PhotoData(photo) == StoredPhoto(photo, "UTC", Absent)

\* how the addressed document relates to the caller when the request starts
Case(d, user_id) ==
    IF ~d.exists THEN "missing"
    ELSE IF user_id \in Users /\ d.user_id # user_id THEN "foreign"
    ELSE "own"

ServiceOps == {"create_item", "get_item_by_id", "update_item_metadata",
               "delete_item_and_photos", "add_photo_to_item",
               "remove_photo_from_item", "update_photo_details_in_item",
               "set_primary_photo"}
RouterOps == {"upload_photo", "delete_photo", "delete_item",
              "photos.set_primary_photo"}

\* mutation of Http: the except blocks swallow the exception and the handler
\* falls through to its normal return
HttpSwallowed(kind) == "2xx"

\* the status code a handler turns an exception of the service layer into
Http(kind) == IF kind = "ConnectionError" THEN "503" ELSE "500"

\* ------------------------------------------------------- store call results
\* The state of a lazily built client: "uninit" before the first call, "ok"
\* once built, "failed" when the construction raised and the text of the
\* exception was kept in _initialization_error, "attempted" when the
\* construction raised an exception whose text is empty: the test
\* "_initialization_attempted and _initialization_error" is then false and the
\* client is still None, so the next call runs the constructor again.
ClientStates == {"uninit", "ok", "failed", "attempted"}

\* the states a client can be in after the ConnectionError of a call
AfterFailure(client) ==
    IF client = "failed" THEN {"failed"} ELSE {"failed", "attempted"}

\* A Firestore call: _ensure_firestore_client() runs at the head of every
\* service function; the call then succeeds ("ok") or raises ("exc").  A
\* failed construction raises ConnectionError ("conn").
FsCall(o) ==
    \/ /\ o = "ok"
       /\ fsClient # "failed"
       /\ fsClient' = "ok"
       /\ faults' = faults
    \/ /\ o = "exc"
       /\ fsClient # "failed"
       /\ faults < MaxFaults
       /\ fsClient' = "ok"
       /\ faults' = faults + 1
    \/ /\ o = "conn"
       /\ fsClient # "ok"
       /\ fsClient' \in AfterFailure(fsClient)
       /\ faults' = faults

\* A GCS call behind _ensure_gcs_client(), same three results
GcsCall(o) ==
    \/ /\ o = "ok"
       /\ gcsClient # "failed"
       /\ gcsClient' = "ok"
       /\ faults' = faults
    \/ /\ o = "exc"
       /\ gcsClient # "failed"
       /\ faults < MaxFaults
       /\ gcsClient' = "ok"
       /\ faults' = faults + 1
    \/ /\ o = "conn"
       /\ gcsClient # "ok"
       /\ gcsClient' \in AfterFailure(gcsClient)
       /\ faults' = faults

Outcomes == {"ok", "exc", "conn"}

\* ------------------------------------------------------------ control flow
Goto(p, label, newloc, called) ==
    /\ pc' = [pc EXCEPT ![p] = label]
    /\ loc' = [loc EXCEPT ![p] = newloc]
    /\ calls' = [calls EXCEPT ![p] = @ \cup called]
    /\ res' = res

Finish(p, outcome) ==
    /\ pc' = [pc EXCEPT ![p] = "done"]
    /\ loc' = [loc EXCEPT ![p] = NoLoc]
    /\ res' = [res EXCEPT ![p] = outcome]
    /\ calls' = calls

\* upload_photo, lines 183-225: the cleanup calls still to make (n) and the
\* status then raised (out)
Cleanup(p, out, n) ==
    Goto(p, IF n = 2 THEN "up_cleanup_first" ELSE "up_cleanup",
         [loc[p] EXCEPT !.out = out, !.list = <<>>], {})

\* A service function returns value ("Item", "None", "True", "False") to its
\* caller: the test harness / administrative caller, or a handler.  photos is
\* the photos list of the returned item.
Return(p, value, photos) ==
    CASE req[p].op \in ServiceOps -> Finish(p, value)
      [] req[p].op = "upload_photo" ->
            IF value = "None" THEN Cleanup(p, "404", 2)
            ELSE IF HasId(photos, loc[p].pid) THEN Finish(p, "2xx")
            ELSE Cleanup(p, "404", 1)
      [] req[p].op = "delete_photo" ->
            IF value = "None"
            THEN Goto(p, "dp_final", [loc[p] EXCEPT !.list = <<>>], {"get_item_by_id"})
            ELSE Finish(p, "2xx")
      [] req[p].op = "delete_item" ->
            IF value = "True" THEN Finish(p, "2xx") ELSE Finish(p, "500")
      [] req[p].op = "photos.set_primary_photo" ->
            IF value = "None" THEN Finish(p, "404")
            ELSE Goto(p, "sp_url", loc[p], {"generate_signed_url"})

\* A service function raises kind ("ConnectionError", "Exception")
Raise(p, kind) ==
    CASE req[p].op \in ServiceOps -> Finish(p, kind)
      [] req[p].op = "upload_photo" -> Cleanup(p, Http(kind), 1)
      [] req[p].op \in {"delete_photo", "delete_item", "photos.set_primary_photo"} ->
            Finish(p, Http(kind))

Kind(o) == IF o = "conn" THEN "ConnectionError" ELSE "Exception"

\* what a Firestore step leaves alone besides the documents
FsFrame == UNCHANGED <<blobs, gcsClient, nextItem, nextPhoto, nreq, req>>
\* what a GCS step leaves alone besides the blobs
GcsFrame == UNCHANGED <<docs, fsClient, nextItem, nextPhoto, nreq, req>>

\* the value get_item_by_id returns, as the caller sees it
Found(item) == IF item.found THEN "Item" ELSE "None"

\* ------------------------------------------- firestore_service: items
\* create_item: doc_ref.set(item_data) with photos = [] and user_id; item_data
\* is item_create.model_dump(exclude_unset=True), without the optional fields
\* the request left out
CreateItem(p) ==
    /\ pc[p] = "create_item"
    /\ \E o \in Outcomes :
          /\ FsCall(o)
          /\ IF o = "ok"
             THEN /\ docs' = [docs EXCEPT ![ItemOrder[nextItem]] =
                                [exists |-> TRUE, user_id |-> req[p].user,
                                 name |-> req[p].name, note |-> req[p].note,
                                 photos |-> <<>>]]
                  /\ nextItem' = nextItem + 1
                  /\ Finish(p, "Item")
             ELSE /\ UNCHANGED <<docs, nextItem>>
                  /\ Raise(p, Kind(o))
    /\ UNCHANGED <<blobs, gcsClient, nextPhoto, nreq, req>>

\* get_item_by_id called on its own
GetItem(p) ==
    /\ pc[p] = "get_item_by_id"
    /\ \E o \in Outcomes :
          /\ FsCall(o)
          /\ IF o = "ok"
             THEN LET item == ItemFrom(docs[req[p].item], req[p].user)
                  IN  Return(p, Found(item), item.photos)
             ELSE Raise(p, Kind(o))
    /\ UNCHANGED docs
    /\ FsFrame

\* update_item_metadata: the snapshot and the ownership check
UpdateRead(p) ==
    /\ pc[p] = "u_read"
    /\ \E o \in Outcomes :
          /\ FsCall(o)
          /\ IF o = "ok"
             THEN LET d == docs[req[p].item]
                  IN  IF ~d.exists \/ NotOwner(d, req[p].user)
                      THEN Return(p, "None", <<>>)
                      ELSE Goto(p, "u_write", loc[p], {})
             ELSE Raise(p, Kind(o))
    /\ UNCHANGED docs
    /\ FsFrame

\* mutation of update_data: model_dump() without exclude_unset, an optional
\* field the request left out is in the dict with its default None
update_data_all(r) ==
    [name |-> r.name, note |-> IF r.note = Absent THEN "None" ELSE r.note]

\* update_item_metadata: update_data = item_update.model_dump(exclude_unset=
\* True), the fields the request has set; name is required, note optional
update_data(r) == [name |-> r.name, note |-> r.note]

\* doc_ref.update(update_data): the keys of the dict are written, every other
\* field of the document stays
Updated(d, data) ==
    [d EXCEPT !.name = data.name,
              !.note = IF data.note = Absent THEN @ ELSE data.note]

\* mutation of UpdateWrite: the update also writes the caller as the owner
UpdateWriteOwner(p) ==
    /\ pc[p] = "u_write"
    /\ \E o \in {"ok", "exc"} :
          /\ FsCall(o)
          /\ IF o = "ok" /\ docs[req[p].item].exists
             THEN /\ docs' = [docs EXCEPT ![req[p].item] =
                                 [Updated(@, update_data(req[p]))
                                    EXCEPT !.user_id = req[p].user]]
                  /\ Goto(p, "u_readback", loc[p], {"get_item_by_id"})
             ELSE /\ UNCHANGED docs
                  /\ Raise(p, "Exception")
    /\ FsFrame

\* update_item_metadata: doc_ref.update(update_data); update_data holds fields
\* of PotteryItemBase, which has no user_id.  NotFound when the document is
\* gone
UpdateWrite(p) ==
    /\ pc[p] = "u_write"
    /\ \E o \in {"ok", "exc"} :
          /\ FsCall(o)
          /\ IF o = "ok" /\ docs[req[p].item].exists
             THEN /\ docs' = [docs EXCEPT ![req[p].item] =
                                 Updated(@, update_data(req[p]))]
                  /\ Goto(p, "u_readback", loc[p], {"get_item_by_id"})
             ELSE /\ UNCHANGED docs
                  /\ Raise(p, "Exception")
    /\ FsFrame

\* update_item_metadata: get_item_by_id(item_id, user_id) after the write
UpdateReadBack(p) ==
    /\ pc[p] = "u_readback"
    /\ \E o \in {"ok", "exc"} :
          /\ FsCall(o)
          /\ IF o = "ok"
             THEN LET item == ItemFrom(docs[req[p].item], req[p].user)
                  IN  Return(p, Found(item), item.photos)
             ELSE Raise(p, "Exception")
    /\ UNCHANGED docs
    /\ FsFrame

\* delete_item_and_photos: the ownership check made when user_id is given
DeleteRead(p) ==
    /\ pc[p] = "d_read"
    /\ \E o \in Outcomes :
          /\ FsCall(o)
          /\ CASE o = "ok" ->
                    LET d == docs[req[p].item]
                    IN  IF d.exists /\ NotOwner(d, req[p].user)
                        THEN Return(p, "False", <<>>)
                        ELSE Goto(p, "d_delete", loc[p], {})
               [] o = "exc" -> Return(p, "False", <<>>)
               [] o = "conn" -> Raise(p, "ConnectionError")
    /\ UNCHANGED docs
    /\ FsFrame

\* mutation of DeleteDoc: deleting a document that is not there counts as
\* an error
DeleteDocStrict(p) ==
    /\ pc[p] = "d_delete"
    /\ \E o \in Outcomes :
          /\ FsCall(o)
          /\ CASE o = "ok" ->
                    /\ docs' = [docs EXCEPT ![req[p].item] = NoDoc]
                    /\ Return(p, IF docs[req[p].item].exists THEN "True" ELSE "False",
                              <<>>)
               [] o = "exc" ->
                    /\ UNCHANGED docs
                    /\ Return(p, "False", <<>>)
               [] o = "conn" ->
                    /\ UNCHANGED docs
                    /\ Raise(p, "ConnectionError")
    /\ FsFrame

\* delete_item_and_photos: doc_ref.delete(), True also when nothing was there
DeleteDoc(p) ==
    /\ pc[p] = "d_delete"
    /\ \E o \in Outcomes :
          /\ FsCall(o)
          /\ CASE o = "ok" ->
                    /\ docs' = [docs EXCEPT ![req[p].item] = NoDoc]
                    /\ Return(p, "True", <<>>)
               [] o = "exc" ->
                    /\ UNCHANGED docs
                    /\ Return(p, "False", <<>>)
               [] o = "conn" ->
                    /\ UNCHANGED docs
                    /\ Raise(p, "ConnectionError")
    /\ FsFrame

\* ------------------------------------------- firestore_service: photos
\* the Photo handed to add_photo_to_item: built by upload_photo (isPrimary is
\* no field of models.Photo, the keyword is dropped), or named by the caller
NewPhoto(p) ==
    IF req[p].op = "upload_photo"
    THEN [id |-> loc[p].pid, gcsPath |-> loc[p].path, stage |-> req[p].stage]
    ELSE [id |-> req[p].photo,
          gcsPath |-> _get_gcs_path(req[p].item, req[p].photo),
          stage |-> req[p].stage]

\* add_photo_to_item: get_item_by_id(item_id, user_id) when user_id is given
AddCheck(p) ==
    /\ pc[p] = "a_check"
    /\ \E o \in Outcomes :
          /\ FsCall(o)
          /\ IF o = "ok"
             THEN IF ItemFrom(docs[req[p].item], req[p].user).found
                  THEN Goto(p, "a_write", loc[p], {})
                  ELSE Return(p, "None", <<>>)
             ELSE Raise(p, Kind(o))
    /\ UNCHANGED docs
    /\ FsFrame

\* add_photo_to_item: doc_ref.update({"photos": ArrayUnion([photo_data])}).
\* On a missing document the client raises NotFound; whether its text holds
\* "NotFound" (return None) or not (re-raise) is the client library's choice.
AddWrite(p) ==
    /\ pc[p] = "a_write"
    /\ \E o \in Outcomes :
          /\ FsCall(o)
          /\ CASE o = "ok" /\ docs[req[p].item].exists ->
                    /\ docs' = [docs EXCEPT ![req[p].item].photos =
                                   ArrayUnion(@, PhotoData(NewPhoto(p)))]
                    /\ Goto(p, "a_readback", loc[p], {"get_item_by_id"})
               [] o = "ok" /\ ~docs[req[p].item].exists ->
                    /\ UNCHANGED docs
                    /\ \/ Return(p, "None", <<>>)
                       \/ Raise(p, "Exception")
               [] OTHER ->
                    /\ UNCHANGED docs
                    /\ Raise(p, Kind(o))
    /\ FsFrame

\* add_photo_to_item: get_item_by_id(item_id, user_id) after the write
AddReadBack(p) ==
    /\ pc[p] = "a_readback"
    /\ \E o \in {"ok", "exc"} :
          /\ FsCall(o)
          /\ IF o = "ok"
             THEN LET item == ItemFrom(docs[req[p].item], req[p].user)
                  IN  Return(p, Found(item), item.photos)
             ELSE Raise(p, "Exception")
    /\ UNCHANGED docs
    /\ FsFrame

\* remove_photo_from_item: get_item_by_id(item_id, user_id) when user_id given
RemoveCheck(p) ==
    /\ pc[p] = "r_check"
    /\ \E o \in Outcomes :
          /\ FsCall(o)
          /\ IF o = "ok"
             THEN IF ItemFrom(docs[req[p].item], req[p].user).found
                  THEN Goto(p, "r_read", loc[p], {})
                  ELSE Return(p, "None", <<>>)
             ELSE Raise(p, Kind(o))
    /\ UNCHANGED docs
    /\ FsFrame

\* remove_photo_from_item: the raw snapshot and the filter by id
RemoveRead(p) ==
    /\ pc[p] = "r_read"
    /\ \E o \in Outcomes :
          /\ FsCall(o)
          /\ IF o = "ok"
             THEN LET d == docs[req[p].item]
                  IN  IF ~d.exists THEN Return(p, "None", <<>>)
                      ELSE IF ~HasId(d.photos, req[p].photo)
                      THEN Goto(p, "r_noop", loc[p], {"get_item_by_id"})
                      ELSE Goto(p, "r_write",
                                [loc[p] EXCEPT !.list = FilterOut(d.photos, req[p].photo)],
                                {})
             ELSE Raise(p, Kind(o))
    /\ UNCHANGED docs
    /\ FsFrame

\* remove_photo_from_item: photo id absent, "return item as-is"
RemoveNoop(p) ==
    /\ pc[p] = "r_noop"
    /\ \E o \in {"ok", "exc"} :
          /\ FsCall(o)
          /\ IF o = "ok"
             THEN LET item == ItemFrom(docs[req[p].item], req[p].user)
                  IN  Return(p, Found(item), item.photos)
             ELSE Raise(p, "Exception")
    /\ UNCHANGED docs
    /\ FsFrame

\* remove_photo_from_item: doc_ref.update({"photos": filtered_photos})
RemoveWrite(p) ==
    /\ pc[p] = "r_write"
    /\ \E o \in {"ok", "exc"} :
          /\ FsCall(o)
          /\ IF o = "ok" /\ docs[req[p].item].exists
             THEN /\ docs' = [docs EXCEPT ![req[p].item].photos = loc[p].list]
                  /\ Goto(p, "r_readback", [loc[p] EXCEPT !.list = <<>>],
                          {"get_item_by_id"})
             ELSE /\ UNCHANGED docs
                  /\ Raise(p, "Exception")
    /\ FsFrame

\* remove_photo_from_item: read back after the write
RemoveReadBack(p) ==
    /\ pc[p] = "r_readback"
    /\ \E o \in {"ok", "exc"} :
          /\ FsCall(o)
          /\ IF o = "ok"
             THEN LET item == ItemFrom(docs[req[p].item], req[p].user)
                  IN  Return(p, Found(item), item.photos)
             ELSE Raise(p, "Exception")
    /\ UNCHANGED docs
    /\ FsFrame

\* update_photo_details_in_item: get_item_by_id and the rebuilt list
DetailsRead(p) ==
    /\ pc[p] = "f_read"
    /\ \E o \in Outcomes :
          /\ FsCall(o)
          /\ IF o = "ok"
             THEN LET item == ItemFrom(docs[req[p].item], req[p].user)
                  IN  IF ~item.found \/ ~HasId(item.photos, req[p].photo)
                      THEN Return(p, "None", <<>>)
                      ELSE Goto(p, "f_write",
                                [loc[p] EXCEPT !.list =
                                    DetailsList(item.photos, req[p].photo, req[p].stage)],
                                {})
             ELSE Raise(p, Kind(o))
    /\ UNCHANGED docs
    /\ FsFrame

\* update_photo_details_in_item: doc_ref.update({"photos": updated_photos_list})
DetailsWrite(p) ==
    /\ pc[p] = "f_write"
    /\ \E o \in {"ok", "exc"} :
          /\ FsCall(o)
          /\ IF o = "ok" /\ docs[req[p].item].exists
             THEN /\ docs' = [docs EXCEPT ![req[p].item].photos = loc[p].list]
                  /\ Return(p, "Item", <<>>)
             ELSE /\ UNCHANGED docs
                  /\ Raise(p, "Exception")
    /\ FsFrame

\* set_primary_photo: get_item_by_id and the rebuilt list
PrimaryRead(p) ==
    /\ pc[p] = "s_read"
    /\ \E o \in Outcomes :
          /\ FsCall(o)
          /\ IF o = "ok"
             THEN LET item == ItemFrom(docs[req[p].item], req[p].user)
                  IN  IF ~item.found \/ ~HasId(item.photos, req[p].photo)
                      THEN Return(p, "None", <<>>)
                      ELSE Goto(p, "s_write",
                                [loc[p] EXCEPT !.list =
                                    PrimaryList(item.photos, req[p].photo)],
                                {})
             ELSE Raise(p, Kind(o))
    /\ UNCHANGED docs
    /\ FsFrame

\* mutation of PrimaryWrite: the list is built again from the stored list at
\* the moment of the write, as a transaction would
PrimaryWriteFresh(p) ==
    /\ pc[p] = "s_write"
    /\ \E o \in {"ok", "exc"} :
          /\ FsCall(o)
          /\ IF o = "ok" /\ docs[req[p].item].exists
             THEN /\ docs' = [docs EXCEPT ![req[p].item].photos =
                                 PrimaryList(PhotoList(@), req[p].photo)]
                  /\ Return(p, "Item", <<>>)
             ELSE /\ UNCHANGED docs
                  /\ Raise(p, "Exception")
    /\ FsFrame

\* set_primary_photo: doc_ref.update({"photos": updated_photos_list})
PrimaryWrite(p) ==
    /\ pc[p] = "s_write"
    /\ \E o \in {"ok", "exc"} :
          /\ FsCall(o)
          /\ IF o = "ok" /\ docs[req[p].item].exists
             THEN /\ docs' = [docs EXCEPT ![req[p].item].photos = loc[p].list]
                  /\ Return(p, "Item", <<>>)
             ELSE /\ UNCHANGED docs
                  /\ Raise(p, "Exception")
    /\ FsFrame

\* ------------------------------------------------------- routers/photos.py
\* upload_photo, lines 107-124: _get_item_or_404, has_primary, content type,
\* uuid4.  any(photo.isPrimary for photo in item.photos) reads an attribute
\* that models.Photo does not have: with a photo in the list it raises
\* AttributeError, outside every try block of the handler.
UploadGet(p) ==
    /\ pc[p] = "up_get"
    /\ \E o \in Outcomes :
          /\ FsCall(o)
          /\ IF o = "ok"
             THEN LET item == ItemFrom(docs[req[p].item], req[p].user)
                  IN  CASE ~item.found ->
                             /\ Finish(p, "404")
                             /\ UNCHANGED nextPhoto
                        [] item.found /\ item.photos # <<>> ->
                             /\ Finish(p, "AttributeError")
                             /\ UNCHANGED nextPhoto
                        [] item.found /\ item.photos = <<>>
                              /\ req[p].ctype # "image/jpeg" ->
                             /\ Finish(p, "422")
                             /\ UNCHANGED nextPhoto
                        [] OTHER ->
                             /\ nextPhoto' = nextPhoto + 1
                             /\ Goto(p, "up_put",
                                     [loc[p] EXCEPT
                                        !.pid = nextPhoto,
                                        !.path = _get_gcs_path(req[p].item, nextPhoto)],
                                     {"upload_photo_to_gcs"})
             ELSE /\ Finish(p, Http(Kind(o)))
                  /\ UNCHANGED nextPhoto
    /\ UNCHANGED <<docs, blobs, gcsClient, nextItem, nreq, req>>

\* mutation of UploadPut: the except blocks around the upload are gone and
\* the handler goes on to add_photo_to_item whatever the upload did
UploadPutUnchecked(p) ==
    /\ pc[p] = "up_put"
    /\ \E o \in Outcomes :
          /\ GcsCall(o)
          /\ blobs' = IF o = "ok" THEN blobs \cup {loc[p].path} ELSE blobs
          /\ Goto(p, "a_check", loc[p], {"add_photo_to_item"})
    /\ GcsFrame

\* upload_photo, lines 126-154: gcs_service.upload_photo_to_gcs
UploadPut(p) ==
    /\ pc[p] = "up_put"
    /\ \E o \in Outcomes :
          /\ GcsCall(o)
          /\ IF o = "ok"
             THEN /\ blobs' = blobs \cup {loc[p].path}
                  /\ Goto(p, "a_check", loc[p], {"add_photo_to_item"})
             ELSE /\ UNCHANGED blobs
                  /\ Finish(p, Http(Kind(o)))
    /\ GcsFrame

\* mutation of BlobsAfterDelete: the blob is never removed
BlobsKept(path, o) == blobs

\* gcs_service.delete_photo_from_gcs: True when deleted or absent, False when
\* blob.delete() raised; the blob is gone exactly when it did not raise
BlobsAfterDelete(path, o) == IF o = "ok" THEN blobs \ {path} ELSE blobs

\* upload_photo, line 183: the cleanup made before the 404 is raised
UploadCleanupFirst(p) ==
    /\ pc[p] = "up_cleanup_first"
    /\ \E o \in {"ok", "exc"} :
          /\ GcsCall(o)
          /\ blobs' = BlobsAfterDelete(loc[p].path, o)
          /\ Goto(p, "up_cleanup", loc[p], {"delete_photo_from_gcs"})
    /\ GcsFrame

\* mutation of UploadCleanup: a cleanup that failed is reported as 503 in
\* place of the status decided before
UploadCleanupReported(p) ==
    /\ pc[p] = "up_cleanup"
    /\ \E o \in {"ok", "exc"} :
          /\ GcsCall(o)
          /\ blobs' = BlobsAfterDelete(loc[p].path, o)
          /\ calls' = [calls EXCEPT ![p] = @ \cup {"delete_photo_from_gcs"}]
          /\ pc' = [pc EXCEPT ![p] = "done"]
          /\ res' = [res EXCEPT ![p] = IF o = "ok" THEN loc[p].out ELSE "503"]
          /\ loc' = [loc EXCEPT ![p] = [NoLoc EXCEPT !.path = loc[p].path,
                                                      !.pid = loc[p].pid,
                                                      !.out = IF o = "ok" THEN "True"
                                                              ELSE "False"]]
    /\ GcsFrame

\* upload_photo, lines 205, 213, 221: the cleanup of an except block; its
\* result is not looked at and the status decided before is raised
UploadCleanup(p) ==
    /\ pc[p] = "up_cleanup"
    /\ \E o \in {"ok", "exc"} :
          /\ GcsCall(o)
          /\ blobs' = BlobsAfterDelete(loc[p].path, o)
          /\ calls' = [calls EXCEPT ![p] = @ \cup {"delete_photo_from_gcs"}]
          /\ pc' = [pc EXCEPT ![p] = "done"]
          /\ res' = [res EXCEPT ![p] = loc[p].out]
          /\ loc' = [loc EXCEPT ![p] = [NoLoc EXCEPT !.path = loc[p].path,
                                                      !.pid = loc[p].pid,
                                                      !.out = IF o = "ok" THEN "True"
                                                              ELSE "False"]]
    /\ GcsFrame

\* delete_photo, lines 264-267: _get_item_or_404, _get_photo_from_item_or_404
DeletePhotoGet(p) ==
    /\ pc[p] = "dp_get"
    /\ \E o \in Outcomes :
          /\ FsCall(o)
          /\ IF o = "ok"
             THEN LET item == ItemFrom(docs[req[p].item], req[p].user)
                  IN  IF ~item.found \/ ~HasId(item.photos, req[p].photo)
                      THEN Finish(p, "404")
                      ELSE Goto(p, "dp_blob",
                                [loc[p] EXCEPT !.path =
                                    FirstWithId(item.photos, req[p].photo).gcsPath],
                                {"delete_photo_from_gcs"})
             ELSE Finish(p, Http(Kind(o)))
    /\ UNCHANGED docs
    /\ FsFrame

\* mutation of gcs_delete_success: the result of the delete is not looked at
gcs_delete_ignored(o) == TRUE

\* delete_photo, lines 272-281: "if not gcs_delete_success: raise"; an
\* exception of the call leaves the handler before the test
gcs_delete_success(o) == o = "ok"

\* delete_photo, lines 269-300: the blob is deleted first; False or an
\* exception ends the request before remove_photo_from_item
DeletePhotoBlob(p) ==
    /\ pc[p] = "dp_blob"
    /\ \E o \in Outcomes :
          /\ GcsCall(o)
          /\ blobs' = BlobsAfterDelete(loc[p].path, o)
          /\ IF gcs_delete_success(o)
             THEN Goto(p, "r_check", loc[p], {"remove_photo_from_item"})
             ELSE /\ pc' = [pc EXCEPT ![p] = "done"]
                  /\ res' = [res EXCEPT ![p] = Http(Kind(o))]
                  /\ loc' = [loc EXCEPT ![p] = [NoLoc EXCEPT !.path = loc[p].path,
                                                             !.out = "False"]]
                  /\ calls' = calls
    /\ GcsFrame

\* delete_photo, lines 307-345: remove_photo_from_item returned None
DeletePhotoFinal(p) ==
    /\ pc[p] = "dp_final"
    /\ \E o \in {"ok", "exc"} :
          /\ FsCall(o)
          /\ IF o = "ok"
             THEN IF ItemFrom(docs[req[p].item], req[p].user).found
                  THEN Finish(p, "2xx")
                  ELSE Finish(p, "404")
             ELSE Finish(p, "500")
    /\ UNCHANGED docs
    /\ FsFrame

\* photos.set_primary_photo, line 412: _get_item_or_404 before the service call
SetPrimaryGet(p) ==
    /\ pc[p] = "sp_get"
    /\ \E o \in Outcomes :
          /\ FsCall(o)
          /\ IF o = "ok"
             THEN IF ItemFrom(docs[req[p].item], req[p].user).found
                  THEN Goto(p, "s_read", loc[p], {"set_primary_photo"})
                  ELSE Finish(p, "404")
             ELSE Finish(p, Http(Kind(o)))
    /\ UNCHANGED docs
    /\ FsFrame

\* photos.set_primary_photo, lines 429-442: _create_photo_response asks
\* gcs_service.generate_signed_url for the URL of the updated photo.  A URL
\* that could not be made is None in the response; the ConnectionError of
\* _ensure_gcs_client is caught by the handler and answered with 503, after
\* the list was written.
SetPrimaryResponse(p) ==
    /\ pc[p] = "sp_url"
    /\ \E o \in Outcomes :
          /\ GcsCall(o)
          /\ IF o = "conn" THEN Finish(p, "503") ELSE Finish(p, "2xx")
    /\ UNCHANGED blobs
    /\ GcsFrame

\* -------------------------------------------------------- routers/items.py
\* delete_item, lines 222-227: _get_item_or_404 and the paths to delete
DeleteItemGet(p) ==
    /\ pc[p] = "di_get"
    /\ \E o \in Outcomes :
          /\ FsCall(o)
          /\ IF o = "ok"
             THEN LET item == ItemFrom(docs[req[p].item], req[p].user)
                  IN  CASE ~item.found -> Finish(p, "404")
                        [] item.found /\ item.photos = <<>> ->
                             Goto(p, "d_read", loc[p], {"delete_item_and_photos"})
                        [] OTHER ->
                             Goto(p, "di_blobs", [loc[p] EXCEPT !.list = item.photos],
                                  {"delete_multiple_photos_from_gcs"})
             ELSE Finish(p, Http(Kind(o)))
    /\ UNCHANGED docs
    /\ FsFrame

\* the paths of a list of photos
Paths(photos) == {photos[k].gcsPath : k \in 1..Len(photos)}

\* mutation of DeleteItemBlobs: the result of delete_multiple_photos_from_gcs
\* is not looked at and the document is deleted next
DeleteItemBlobsUnchecked(p) ==
    /\ pc[p] = "di_blobs"
    /\ \E failed \in SUBSET Paths(loc[p].list) :
          /\ gcsClient # "failed"
          /\ faults + Cardinality(failed) <= MaxFaults
          /\ gcsClient' = "ok"
          /\ faults' = faults + Cardinality(failed)
          /\ blobs' = blobs \ (Paths(loc[p].list) \ failed)
          /\ Goto(p, "d_read", [loc[p] EXCEPT !.list = <<>>],
                  {"delete_item_and_photos"})
    /\ GcsFrame

\* delete_item, lines 227-238, and delete_multiple_photos_from_gcs: every
\* path is tried, the paths in failed raise, one failure makes the call False
DeleteItemBlobs(p) ==
    /\ pc[p] = "di_blobs"
    /\ \/ /\ GcsCall("conn")
          /\ UNCHANGED blobs
          /\ Finish(p, "503")
       \/ \E failed \in SUBSET Paths(loc[p].list) :
             /\ gcsClient # "failed"
             /\ faults + Cardinality(failed) <= MaxFaults
             /\ gcsClient' = "ok"
             /\ faults' = faults + Cardinality(failed)
             /\ blobs' = blobs \ (Paths(loc[p].list) \ failed)
             /\ IF failed = {}
                THEN Goto(p, "d_read", [loc[p] EXCEPT !.list = <<>>],
                          {"delete_item_and_photos"})
                ELSE Finish(p, "500")
    /\ GcsFrame

\* ------------------------------------------ gcs_service, called on its own
GcsOps == {"upload_photo_to_gcs", "delete_photo_from_gcs",
           "delete_multiple_photos_from_gcs", "generate_signed_url"}

\* upload_photo_to_gcs: blob.upload_from_string, the path returned or the
\* exception raised again
GcsUpload(p) ==
    /\ pc[p] = "upload_photo_to_gcs"
    /\ \E o \in Outcomes :
          /\ GcsCall(o)
          /\ blobs' = IF o = "ok"
                      THEN blobs \cup {_get_gcs_path(req[p].item, req[p].photo)}
                      ELSE blobs
          /\ Finish(p, IF o = "ok" THEN "path" ELSE Kind(o))
    /\ GcsFrame

\* delete_photo_from_gcs: True when blob.delete() returned or raised NotFound,
\* False when it raised anything else
GcsDelete(p) ==
    /\ pc[p] = "delete_photo_from_gcs"
    /\ \E o \in Outcomes :
          /\ GcsCall(o)
          /\ blobs' = BlobsAfterDelete(_get_gcs_path(req[p].item, req[p].photo), o)
          /\ Finish(p, CASE o = "ok" -> "True"
                         [] o = "exc" -> "False"
                         [] o = "conn" -> "ConnectionError")
    /\ GcsFrame

\* mutation of Deleted: the loop ends at the first delete that raises
DeletedUntilFailure(paths, failed) ==
    {paths[k] : k \in {j \in 1..Len(paths) : \A f \in failed : j < f}}

\* delete_multiple_photos_from_gcs, the loop: blob.delete() is called for
\* every position of the list; the positions in failed raise something other
\* than NotFound, and the paths of the other positions are gone afterwards
Deleted(paths, failed) == {paths[k] : k \in (1..Len(paths)) \ failed}

\* delete_multiple_photos_from_gcs: True on the empty list; all_succeeded is
\* True when no delete raised something other than NotFound
GcsDeleteMultiple(p) ==
    /\ pc[p] = "delete_multiple_photos_from_gcs"
    /\ \/ /\ GcsCall("conn")
          /\ UNCHANGED blobs
          /\ Finish(p, "ConnectionError")
       \/ \E failed \in SUBSET (1..Len(req[p].paths)) :
             /\ gcsClient # "failed"
             /\ faults + Cardinality(failed) <= MaxFaults
             /\ gcsClient' = "ok"
             /\ faults' = faults + Cardinality(failed)
             /\ blobs' = blobs \ Deleted(req[p].paths, failed)
             /\ Finish(p, IF failed = {} THEN "True" ELSE "False")
    /\ GcsFrame

\* generate_signed_url: blob.generate_signed_url signs the path with the
\* credentials of the client; the test of blob.exists() is commented out and
\* nothing asks the bucket whether the blob is there.  An exception of the
\* signing is answered with None, the ConnectionError of _ensure_gcs_client
\* leaves the function.
GcsSignedUrl(p) ==
    /\ pc[p] = "generate_signed_url"
    /\ \E o \in Outcomes :
          /\ GcsCall(o)
          /\ Finish(p, CASE o = "ok" -> "url"
                         [] o = "exc" -> "None"
                         [] o = "conn" -> "ConnectionError")
    /\ UNCHANGED blobs
    /\ GcsFrame

\* ---------------------------------------------------------------- requests
\* the first store call of each operation
First(r) ==
    CASE r.op = "create_item" -> "create_item"
      [] r.op = "get_item_by_id" -> "get_item_by_id"
      [] r.op = "update_item_metadata" -> "u_read"
      [] r.op = "delete_item_and_photos" ->
            IF Truthy(r.user) THEN "d_read" ELSE "d_delete"
      [] r.op = "add_photo_to_item" ->
            IF Truthy(r.user) THEN "a_check" ELSE "a_write"
      [] r.op = "remove_photo_from_item" ->
            IF Truthy(r.user) THEN "r_check" ELSE "r_read"
      [] r.op = "update_photo_details_in_item" -> "f_read"
      [] r.op = "set_primary_photo" -> "s_read"
      [] r.op = "upload_photo" -> "up_get"
      [] r.op = "delete_photo" -> "dp_get"
      [] r.op = "delete_item" -> "di_get"
      [] r.op = "photos.set_primary_photo" -> "sp_get"
      [] r.op \in GcsOps -> r.op

Req(op, item, user, photo, stage, name, ctype) ==
    [op |-> op, item |-> item, user |-> user, photo |-> photo, stage |-> stage,
     name |-> name, ctype |-> ctype, note |-> Absent,
     case |-> Case(docs[item], user),
     n0 |-> Len(docs[item].photos), f0 |-> 0, retry |-> "none",
     paths |-> <<>>]

\* calls of the service functions, by any caller identity or unscoped; the
\* caller of add_photo_to_item builds the Photo with a fresh id (uuid4 default)
ServiceRequests ==
    {Req("create_item", "i1", u, 0, "Greenware", "Mug", "image/jpeg") : u \in Users}
    \cup {Req(op, i, u, 0, "Greenware", "Mug", "image/jpeg") :
            op \in {"get_item_by_id", "delete_item_and_photos"},
            i \in ItemIds, u \in Users \cup {None}}
    \cup {[Req("update_item_metadata", i, u, 0, "Greenware", n, "image/jpeg")
               EXCEPT !.note = nt] :
            i \in ItemIds, u \in Users \cup {None}, n \in Names,
            nt \in Notes \cup {Absent}}
    \cup {Req("add_photo_to_item", i, u, nextPhoto, st, "Mug", "image/jpeg") :
            i \in ItemIds, u \in Users \cup {None}, st \in Stages}
    \cup {Req("update_photo_details_in_item", i, u, ph, st, "Mug", "image/jpeg") :
            i \in ItemIds, u \in Users \cup {None}, ph \in PhotoIds, st \in Stages}
    \cup {Req(op, i, u, ph, "Greenware", "Mug", "image/jpeg") :
            op \in {"remove_photo_from_item", "set_primary_photo"},
            i \in ItemIds, u \in Users \cup {None}, ph \in PhotoIds}

\* requests of an authenticated user to the handlers
RouterRequests ==
    {Req("create_item", "i1", u, 0, "Greenware", "Mug", "image/jpeg") : u \in Users}
    \cup {Req("upload_photo", i, u, 0, "Greenware", "Mug", ct) :
        i \in ItemIds, u \in Users, ct \in {"image/jpeg", "text/plain"}}
    \cup {Req(op, i, u, ph, "Greenware", "Mug", "image/jpeg") :
            op \in {"delete_photo", "photos.set_primary_photo"},
            i \in ItemIds, u \in Users, ph \in PhotoIds}
    \cup {Req("delete_item", i, u, 0, "Greenware", "Mug", "image/jpeg") :
            i \in ItemIds, u \in Users}

\* requests that have not drawn the id they will need
Pending(op, label) == Cardinality({q \in Procs : req[q].op = op /\ pc[q] = label})

\* A request keeps, for the reading of the outcome: case and n0, the ownership
\* case and the length of the list when it started; retry and f0, whether it
\* repeats a failed delete and the faults counted when the repetition started.
\* Whether r repeats the request p has just seen fail with 500 or 503, and how
\* far that request had come: "blob" when it ended in the blob delete, "final"
\* when it ended in the service call that removes the metadata, "removed" when
\* it ended there and the photo entry is no longer in the stored list
Retry(p, r) ==
    IF /\ pc[p] = "done"
       /\ res[p] \in {"500", "503"}
       /\ r.op \in {"delete_photo", "delete_item"}
       /\ r.op = req[p].op /\ r.item = req[p].item
       /\ r.user = req[p].user /\ r.photo = req[p].photo
    THEN CASE "remove_photo_from_item" \in calls[p] ->
                 IF HasId(docs[r.item].photos, r.photo) THEN "final" ELSE "removed"
           [] "delete_item_and_photos" \in calls[p] -> "final"
           [] "delete_photo_from_gcs" \in calls[p] -> "blob"
           [] "delete_multiple_photos_from_gcs" \in calls[p] -> "blob"
           [] OTHER -> "none"
    ELSE "none"

\* a worker takes a request out of requests
Start(p, requests) ==
    /\ pc[p] \in {"idle", "done"}
    /\ nreq < MaxRequests
    /\ \E r \in requests :
          /\ r.op = "create_item" =>
                nextItem + Pending("create_item", "create_item") <= Len(ItemOrder)
          /\ r.op \in {"upload_photo", "add_photo_to_item"} =>
                nextPhoto + Pending("upload_photo", "up_get") <= MaxPhotos
          /\ nextPhoto' = IF r.op = "add_photo_to_item" THEN nextPhoto + 1 ELSE nextPhoto
          /\ req' = [req EXCEPT ![p] =
                        [r EXCEPT !.retry = Retry(p, r),
                                  !.f0 = IF Retry(p, r) = "none" THEN 0 ELSE faults]]
          /\ pc' = [pc EXCEPT ![p] = First(r)]
          /\ calls' = [calls EXCEPT ![p] =
                          IF r.op \in ServiceOps THEN {r.op} ELSE {"get_item_by_id"}]
    /\ loc' = [loc EXCEPT ![p] = NoLoc]
    /\ res' = [res EXCEPT ![p] = "none"]
    /\ nreq' = nreq + 1
    /\ UNCHANGED <<docs, blobs, fsClient, gcsClient, nextItem, faults>>

\* the steps a request to a handler can take
HandlerStep(p) ==
    \/ Start(p, RouterRequests)
    \/ CreateItem(p)
    \/ DeleteRead(p)
    \/ DeleteDoc(p)
    \/ AddCheck(p)
    \/ AddWrite(p)
    \/ AddReadBack(p)
    \/ RemoveCheck(p)
    \/ RemoveRead(p)
    \/ RemoveNoop(p)
    \/ RemoveWrite(p)
    \/ RemoveReadBack(p)
    \/ PrimaryRead(p)
    \/ PrimaryWrite(p)
    \/ UploadGet(p)
    \/ UploadPut(p)
    \/ UploadCleanup(p)
    \/ DeletePhotoGet(p)
    \/ DeletePhotoBlob(p)
    \/ SetPrimaryGet(p)
    \/ SetPrimaryResponse(p)
    \/ DeleteItemGet(p)
    \/ DeleteItemBlobs(p)

\* the steps a handler takes only when the item changed under it: the item
\* was deleted by another request between two of its store calls
RaceStep(p) ==
    \/ UploadCleanupFirst(p)
    \/ DeletePhotoFinal(p)

\* the steps only a direct call of a service function takes
ServiceStep(p) ==
    \/ Start(p, ServiceRequests)
    \/ GetItem(p)
    \/ UpdateRead(p)
    \/ UpdateWrite(p)
    \/ UpdateReadBack(p)
    \/ DetailsRead(p)
    \/ DetailsWrite(p)

\* the application: requests to the handlers served concurrently, the steps of
\* the workers interleave at every store call
Next == \E p \in Procs : HandlerStep(p) \/ RaceStep(p)

Spec == Init /\ [][Next]_vars

\* the service layer and the handlers called one at a time by one caller
Caller == "w1"

SeqNext == HandlerStep(Caller) \/ ServiceStep(Caller)

SeqSpec == Init /\ [][SeqNext]_vars

\* add_photo_to_item(item_id, photo, user_id) called with a Photo whose id
\* the caller names: the id is a field of the model, uuid4 only its default
NamedRequests ==
    {Req("create_item", "i1", u, 0, "Greenware", "Mug", "image/jpeg") : u \in Users}
    \cup {Req("add_photo_to_item", i, u, ph, st, "Mug", "image/jpeg") :
            i \in ItemIds, u \in Users \cup {None}, ph \in PhotoIds, st \in Stages}
    \cup {Req("remove_photo_from_item", i, u, ph, "Greenware", "Mug", "image/jpeg") :
            i \in ItemIds, u \in Users \cup {None}, ph \in PhotoIds}

\* the lists of paths handed to delete_multiple_photos_from_gcs
PathLists == UNION {[1..n -> ItemIds \X PhotoIds] : n \in 0..MaxPhotos}

\* calls of the functions of gcs_service
GcsRequests ==
    {Req(op, i, None, ph, "Greenware", "Mug", "image/jpeg") :
        op \in GcsOps \ {"delete_multiple_photos_from_gcs"},
        i \in ItemIds, ph \in PhotoIds}
    \cup {[Req("delete_multiple_photos_from_gcs", "i1", None, 0, "Greenware",
               "Mug", "image/jpeg") EXCEPT !.paths = ps] : ps \in PathLists}

\* the caller calls a function with arguments of its choice; no id is drawn
Call(p, requests) ==
    /\ pc[p] \in {"idle", "done"}
    /\ nreq < MaxRequests
    /\ \E r \in requests :
          /\ r.op = "create_item" => nextItem <= Len(ItemOrder)
          /\ req' = [req EXCEPT ![p] = r]
          /\ pc' = [pc EXCEPT ![p] = First(r)]
          /\ calls' = [calls EXCEPT ![p] = {r.op}]
    /\ loc' = [loc EXCEPT ![p] = NoLoc]
    /\ res' = [res EXCEPT ![p] = "none"]
    /\ nreq' = nreq + 1
    /\ UNCHANGED <<docs, blobs, fsClient, gcsClient, nextItem, nextPhoto, faults>>

\* the service layer called with Photos of the caller's making
NamedNext ==
    \/ Call(Caller, NamedRequests)
    \/ CreateItem(Caller)
    \/ AddCheck(Caller)
    \/ AddWrite(Caller)
    \/ AddReadBack(Caller)
    \/ RemoveCheck(Caller)
    \/ RemoveRead(Caller)
    \/ RemoveNoop(Caller)
    \/ RemoveWrite(Caller)
    \/ RemoveReadBack(Caller)

NamedSpec == Init /\ [][NamedNext]_vars

\* calls of the functions that change the photos list of the one item of u1
ListRequests ==
    {Req("create_item", "i1", "u1", 0, "Greenware", "Mug", "image/jpeg")}
    \cup {Req("add_photo_to_item", "i1", "u1", nextPhoto, st, "Mug", "image/jpeg") :
            st \in Stages}
    \cup {Req("update_photo_details_in_item", "i1", "u1", ph, st, "Mug", "image/jpeg") :
            ph \in PhotoIds, st \in Stages}
    \cup {Req(op, "i1", "u1", ph, "Greenware", "Mug", "image/jpeg") :
            op \in {"remove_photo_from_item", "set_primary_photo"},
            ph \in PhotoIds}

\* the steps of the functions that change a photos list
ListStep(p) ==
    \/ Start(p, ListRequests)
    \/ CreateItem(p)
    \/ AddCheck(p)
    \/ AddWrite(p)
    \/ AddReadBack(p)
    \/ RemoveCheck(p)
    \/ RemoveRead(p)
    \/ RemoveNoop(p)
    \/ RemoveWrite(p)
    \/ RemoveReadBack(p)
    \/ DetailsRead(p)
    \/ DetailsWrite(p)
    \/ PrimaryRead(p)
    \/ PrimaryWrite(p)

\* the service layer called by two workers at once: the awaits of the store
\* calls are the points where the event loop switches between them
ListNext == \E p \in Procs : ListStep(p)

ListSpec == Init /\ [][ListNext]_vars

\* the functions of gcs_service called one at a time
GcsNext ==
    \/ Call(Caller, GcsRequests)
    \/ GcsUpload(Caller)
    \/ GcsDelete(Caller)
    \/ GcsDeleteMultiple(Caller)
    \/ GcsSignedUrl(Caller)

GcsSpec == Init /\ [][GcsNext]_vars

\* requests to the two handlers that write isPrimary, and create_item
PrimaryRequests ==
    {r \in RouterRequests :
        r.op \in {"create_item", "upload_photo", "photos.set_primary_photo"}}

\* uploads and set-primary requests of one caller, one at a time; no request
\* removes a photo or an item
PrimaryNext ==
    \/ Start(Caller, PrimaryRequests)
    \/ CreateItem(Caller)
    \/ UploadGet(Caller)
    \/ UploadPut(Caller)
    \/ AddCheck(Caller)
    \/ AddWrite(Caller)
    \/ AddReadBack(Caller)
    \/ UploadCleanup(Caller)
    \/ SetPrimaryGet(Caller)
    \/ PrimaryRead(Caller)
    \/ PrimaryWrite(Caller)
    \/ SetPrimaryResponse(Caller)

PrimarySpec == Init /\ [][PrimaryNext]_vars

\* requests to upload_photo and delete_item, and create_item
UploadRequests ==
    {r \in RouterRequests : r.op \in {"create_item", "upload_photo", "delete_item"}}

\* the steps of upload_photo and delete_item
UploadStep(p) ==
    \/ Start(p, UploadRequests)
    \/ CreateItem(p)
    \/ UploadGet(p)
    \/ UploadPut(p)
    \/ AddCheck(p)
    \/ AddWrite(p)
    \/ AddReadBack(p)
    \/ UploadCleanupFirst(p)
    \/ UploadCleanup(p)
    \/ DeleteItemGet(p)
    \/ DeleteItemBlobs(p)
    \/ DeleteRead(p)
    \/ DeleteDoc(p)

\* uploads and item deletions served concurrently by two workers
UploadNext == \E p \in Procs : UploadStep(p)

UploadSpec == Init /\ [][UploadNext]_vars

\* the steps of the handlers when one caller sends one request at a time;
\* the photo a delete_photo names is then still in the list when
\* remove_photo_from_item reads it
SagaNext ==
    \/ Start(Caller, RouterRequests)
    \/ CreateItem(Caller)
    \/ DeleteRead(Caller)
    \/ DeleteDoc(Caller)
    \/ AddCheck(Caller)
    \/ AddWrite(Caller)
    \/ AddReadBack(Caller)
    \/ RemoveCheck(Caller)
    \/ RemoveRead(Caller)
    \/ RemoveWrite(Caller)
    \/ RemoveReadBack(Caller)
    \/ PrimaryRead(Caller)
    \/ PrimaryWrite(Caller)
    \/ UploadGet(Caller)
    \/ UploadPut(Caller)
    \/ UploadCleanup(Caller)
    \/ DeletePhotoGet(Caller)
    \/ DeletePhotoBlob(Caller)
    \/ SetPrimaryGet(Caller)
    \/ SetPrimaryResponse(Caller)
    \/ DeleteItemGet(Caller)
    \/ DeleteItemBlobs(Caller)

\* the handlers called one at a time by one caller
SagaSpec == Init /\ [][SagaNext]_vars

\* get_item_by_id and delete_item_and_photos called with any user_id a caller
\* can hand in: a user name, the empty string, or None
ScopedRequests ==
    {Req("create_item", "i1", u, 0, "Greenware", "Mug", "image/jpeg") : u \in Users}
    \cup {Req(op, i, u, 0, "Greenware", "Mug", "image/jpeg") :
            op \in {"get_item_by_id", "delete_item_and_photos"},
            i \in ItemIds, u \in Users \cup {"", None}}

ScopedNext ==
    \/ Call(Caller, ScopedRequests)
    \/ CreateItem(Caller)
    \/ GetItem(Caller)
    \/ DeleteRead(Caller)
    \/ DeleteDoc(Caller)

ScopedSpec == Init /\ [][ScopedNext]_vars

TypeOK ==
    /\ blobs \subseteq (ItemIds \X PhotoIds)
    /\ fsClient \in ClientStates
    /\ gcsClient \in ClientStates
    /\ faults \in 0..MaxFaults
    /\ nreq \in 0..MaxRequests


\* ================================================================= claims
\* the positions of the entries of a stored list marked primary
Primaries(photos) == {k \in 1..Len(photos) : photos[k].isPrimary = "true"}

\* a worker whose request has returned
Done(p) == pc[p] = "done"

\* the store calls of the step answered without a fault
NoFaultStep == faults' = faults /\ fsClient' = "ok"

\* C1: after any sequence of append, removeById, setPrimary and updateFields
\* calls and of the sagas built on them, executed one at a time, no item has
\* more than one photo with isPrimary = true
C1_AtMostOnePrimary ==
    \A i \in ItemIds : Cardinality(Primaries(docs[i].photos)) <= 1

\* C1 case: a list of two photos after set_primary_photo marked one of them
C1_Witness ==
    /\ Done(Caller)
    /\ req[Caller].op \in {"set_primary_photo", "photos.set_primary_photo"}
    /\ res[Caller] \in {"Item", "2xx"}
    /\ Len(docs[req[Caller].item].photos) = 2
    /\ Cardinality(Primaries(docs[req[Caller].item].photos)) = 1

\* C2: in every reachable state of concurrently running requests, the
\* interleavings of two upload_photo requests or of an upload_photo and a
\* set_primary_photo included, no two entries of one list are both primary
C2_AtMostOnePrimaryConcurrent ==
    \A i \in ItemIds : \A j, k \in 1..Len(docs[i].photos) :
        (docs[i].photos[j].isPrimary = "true" /\ docs[i].photos[k].isPrimary = "true")
            => j = k

\* C2 case: two upload_photo requests on one item overlapped and both stored
\* their photo
C2_Witness ==
    /\ \A p \in Procs : Done(p) /\ req[p].op = "upload_photo" /\ res[p] = "2xx"
    /\ req["w1"].item = req["w2"].item
    /\ Len(docs[req["w1"].item].photos) = 2

\* C3 (as stated): upload_photo on an item with an empty photos list stores
\* the new photo with isPrimary = true
C3_FirstUploadIsPrimary ==
    (/\ Done(Caller)
     /\ req[Caller].op = "upload_photo"
     /\ req[Caller].n0 = 0
     /\ res[Caller] = "2xx")
        => /\ Len(docs[req[Caller].item].photos) = 1
           /\ docs[req[Caller].item].photos[1].isPrimary = "true"

\* C3 case: the upload to an item without photos returned 201 and the list
\* holds the one photo it stored
C3_Witness ==
    /\ Done(Caller)
    /\ req[Caller].op = "upload_photo"
    /\ req[Caller].n0 = 0
    /\ res[Caller] = "2xx"
    /\ Len(docs[req[Caller].item].photos) = 1

\* C4 (as stated): upload_photo on an item that already has a photo, whatever
\* the isPrimary values, stores the new photo with isPrimary = false and
\* leaves the isPrimary of the existing entries as it was
C4_LaterUploadNotPrimary ==
    (/\ Done(Caller)
     /\ req[Caller].op = "upload_photo"
     /\ req[Caller].case = "own"
     /\ req[Caller].ctype = "image/jpeg"
     /\ req[Caller].n0 >= 1
     /\ faults = 0
     /\ fsClient = "ok"
     /\ gcsClient # "failed")
        => /\ res[Caller] = "2xx"
           /\ Len(docs[req[Caller].item].photos) = req[Caller].n0 + 1
           /\ docs[req[Caller].item].photos[req[Caller].n0 + 1].isPrimary = "false"

\* C4 case: an upload by the owner to an item that holds a photo has returned
C4_Witness ==
    /\ Done(Caller)
    /\ req[Caller].op = "upload_photo"
    /\ req[Caller].case = "own"
    /\ req[Caller].ctype = "image/jpeg"
    /\ req[Caller].n0 >= 1
    /\ faults = 0

HandlerGets == {"up_get", "dp_get", "di_get", "sp_get"}

MutatingOps == (ServiceOps \ {"create_item", "get_item_by_id"}) \cup RouterOps

\* C7: no step of a mutating operation or saga called with the identity of a
\* user who does not own the item changes a document, a photos list or a blob
C7_ForeignCallerChangesNothing ==
    [][(/\ req[Caller].op \in MutatingOps
        /\ req[Caller].case = "foreign"
        /\ pc[Caller] \notin {"idle", "done"})
          => /\ docs' = docs
             /\ blobs' = blobs]_vars

\* C7 case: delete_item_and_photos by another user than the owner has
\* returned and the document with its photos is still there
C7_Witness ==
    /\ Done(Caller)
    /\ req[Caller].op = "delete_item_and_photos"
    /\ req[Caller].case = "foreign"
    /\ docs[req[Caller].item].exists
    /\ docs[req[Caller].item].photos # <<>>

\* the owner-scoped operations of the service layer
OwnerScoped == ServiceOps \ {"create_item"}

\* a request of an owner-scoped operation, by a user, answered by a healthy store
Answered(p) ==
    /\ Done(p)
    /\ req[p].op \in OwnerScoped
    /\ req[p].user \in Users
    /\ faults = 0
    /\ fsClient = "ok"

\* what an operation returns for an id that is not stored
MissingResult(op) == IF op = "delete_item_and_photos" THEN "True" ELSE "None"

\* C8 (as stated): every owner-scoped operation returns for an id owned by
\* someone else what it returns for an id that is not stored
C8_MissingEqualsForeign ==
    \A p \in Procs :
        (Answered(p) /\ req[p].case \in {"missing", "foreign"})
            => res[p] = MissingResult(req[p].op)

\* C8 (amended): get, update, append, removeById, updateFields and setPrimary
\* return None for a missing id and for an id owned by someone else alike;
\* delete returns True for a missing id and False for one owned by someone else
C8_MissingEqualsForeignButDelete ==
    \A p \in Procs :
        (Answered(p) /\ req[p].case \in {"missing", "foreign"})
            => res[p] = IF req[p].op = "delete_item_and_photos" /\ req[p].case = "foreign"
                        THEN "False"
                        ELSE MissingResult(req[p].op)

\* C8 case: update_item_metadata by another user than the owner returned None
C8_Witness ==
    /\ Answered(Caller)
    /\ req[Caller].op = "update_item_metadata"
    /\ req[Caller].case = "foreign"
    /\ res[Caller] = "None"
    /\ docs[req[Caller].item].exists

\* an upload_photo request that has returned after its add_photo_to_item failed
AppendFailed(p) ==
    /\ Done(p)
    /\ req[p].op = "upload_photo"
    /\ "add_photo_to_item" \in calls[p]
    /\ res[p] # "2xx"

\* C9 (as stated): when the append step of upload_photo fails, by an
\* exception or by None, no blob exists at the uploaded path on return
C9_NoBlobAfterFailedAppend ==
    \A p \in Procs : AppendFailed(p) => loc[p].path \notin blobs

\* C9 (amended): when the append step fails the handler calls
\* delete_photo_from_gcs on the uploaded path before it returns, and no blob
\* is left there unless that delete itself failed
C9_CleanupAfterFailedAppend ==
    \A p \in Procs :
        AppendFailed(p)
            => /\ "delete_photo_from_gcs" \in calls[p]
               /\ loc[p].out \in {"True", "False"}
               /\ loc[p].out = "True" => loc[p].path \notin blobs

\* C9 case: an upload whose append failed has returned after a cleanup that
\* succeeded, and the blob is gone
C9_Witness ==
    \E p \in Procs :
        /\ AppendFailed(p)
        /\ loc[p].out = "True"
        /\ loc[p].pid \in PhotoIds
        /\ loc[p].path \notin blobs

\* C10: when delete_photo_from_gcs fails (False or an exception) during
\* delete_photo, the request ends there with an error: remove_photo_from_item
\* is never called and the list still holds the entry with its gcsPath
C10_BlobDeleteFailureKeepsMetadata ==
    [][\A p \in Procs :
         (/\ pc[p] = "dp_blob"
          /\ pc'[p] # "dp_blob"
          /\ (faults' > faults \/ gcsClient' = "failed"))
            => /\ pc'[p] = "done"
               /\ res'[p] \in {"500", "503"}
               /\ "remove_photo_from_item" \notin calls'[p]
               /\ docs' = docs
               /\ \E k \in 1..Len(docs'[req[p].item].photos) :
                     /\ docs'[req[p].item].photos[k].id = req[p].photo
                     /\ docs'[req[p].item].photos[k].gcsPath = loc[p].path]_vars

\* C10 case: a delete_photo request has returned 500 after the blob delete
\* failed, and the entry is still listed
C10_Witness ==
    /\ Done(Caller)
    /\ req[Caller].op = "delete_photo"
    /\ loc[Caller].out = "False"
    /\ res[Caller] = "500"
    /\ HasId(docs[req[Caller].item].photos, req[Caller].photo)


\* a request of a handler (a saga) is in flight
InSaga == req[Caller].op \in RouterOps /\ pc[Caller] \notin {"idle", "done"}

\* the stored photo entries of an item that a step takes out of the store
Destroyed(i) ==
    {docs[i].photos[k] : k \in
        {j \in 1..Len(docs[i].photos) :
            ~docs'[i].exists \/ ~HasId(docs'[i].photos, docs[i].photos[j].id)}}

\* C11: with the sagas run one after another and either store failing at
\* will, no step of a saga takes a photo's metadata out of the document store
\* (entry removed or item deleted) while a blob is left at its gcsPath
C11_MetadataNeverOutlivedByBlob ==
    [][InSaga => \A i \in ItemIds : \A e \in Destroyed(i) : e.gcsPath \notin blobs']_vars

\* C11 case: delete_photo has removed the entry of a photo after a store
\* fault earlier in the behaviour, and no blob is left at its path
C11_Witness ==
    /\ Done(Caller)
    /\ req[Caller].op = "delete_photo"
    /\ res[Caller] = "2xx"
    /\ faults >= 1
    /\ docs[req[Caller].item].exists
    /\ ~HasId(docs[req[Caller].item].photos, req[Caller].photo)
    /\ _get_gcs_path(req[Caller].item, req[Caller].photo) \notin blobs


\* step 1 of the saga of worker p finds nothing to act on: the item is not
\* visible to the caller or, for delete_photo, holds no photo with the id
NothingFound(p) ==
    LET d == docs[req[p].item]
        hidden == ~d.exists \/ d.user_id # req[p].user
    IN  \/ pc[p] \in {"up_get", "di_get"} /\ hidden
        \/ pc[p] = "dp_get" /\ (hidden \/ ~HasId(d.photos, req[p].photo))

GcsFailedStep == faults' > faults \/ gcsClient' = "failed"

\* C13: when upload_photo_to_gcs fails in upload_photo the request ends there
\* with an error, add_photo_to_item is never called and no document (photos
\* list included) nor blob changes
C13_PutFailureAborts ==
    [][\A p \in Procs :
         (pc[p] = "up_put" /\ pc'[p] # "up_put" /\ GcsFailedStep)
            => /\ pc'[p] = "done"
               /\ res'[p] \in {"500", "503"}
               /\ "add_photo_to_item" \notin calls'[p]
               /\ docs' = docs
               /\ blobs' = blobs]_vars

\* C13 case: an upload by the owner has returned an error right after the
\* upload to GCS, and the item's photos list is as it was
C13_Witness ==
    /\ Done(Caller)
    /\ req[Caller].op = "upload_photo"
    /\ res[Caller] \in {"500", "503"}
    /\ calls[Caller] = {"get_item_by_id", "upload_photo_to_gcs"}
    /\ docs[req[Caller].item].exists
    /\ Len(docs[req[Caller].item].photos) = req[Caller].n0


\* C14: when delete_multiple_photos_from_gcs returns False or raises in
\* delete_item the request ends there with an error, delete_item_and_photos
\* is never called and the document, its whole photos list included, is
\* unchanged
C14_DeleteManyFailureAborts ==
    [][\A p \in Procs :
         (pc[p] = "di_blobs" /\ pc'[p] # "di_blobs" /\ GcsFailedStep)
            => /\ pc'[p] = "done"
               /\ res'[p] \in {"500", "503"}
               /\ "delete_item_and_photos" \notin calls'[p]
               /\ docs' = docs]_vars

\* C14 case: delete_item by the owner of an item with photos has returned
\* 500 after the blob deletion failed, and the document still lists them
C14_Witness ==
    /\ Done(Caller)
    /\ req[Caller].op = "delete_item"
    /\ res[Caller] = "500"
    /\ "delete_multiple_photos_from_gcs" \in calls[Caller]
    /\ docs[req[Caller].item].exists
    /\ Len(docs[req[Caller].item].photos) = req[Caller].n0
    /\ req[Caller].n0 >= 1


\* the calls that reach the blob store
GcsCalls == {"upload_photo_to_gcs", "delete_photo_from_gcs",
             "delete_multiple_photos_from_gcs"}

\* C15: with requests run one after another, when delete_item returns
\* success no blob is left at the gcsPath of any photo the item listed and
\* get_item_by_id for the caller finds nothing; for an item without photos
\* the request has made no call to the blob store
C15_DeleteItemCascades ==
    [][(/\ req[Caller].op = "delete_item"
        /\ pc[Caller] # "done"
        /\ pc'[Caller] = "done"
        /\ res'[Caller] = "2xx")
          => LET i == req[Caller].item
             IN  /\ ~docs'[i].exists
                 /\ Case(docs'[i], req[Caller].user) = "missing"
                 /\ \A k \in 1..Len(docs[i].photos) :
                       docs[i].photos[k].gcsPath \notin blobs'
                 /\ req[Caller].n0 = Len(docs[i].photos)
                 /\ req[Caller].n0 = 0 => calls'[Caller] \cap GcsCalls = {}]_vars

\* C15 case: delete_item of an item that listed a photo has returned success
\* after its call to the blob store; the document is gone, the bucket empty
C15_Witness ==
    /\ Done(Caller)
    /\ req[Caller].op = "delete_item"
    /\ res[Caller] = "2xx"
    /\ req[Caller].n0 >= 1
    /\ "delete_multiple_photos_from_gcs" \in calls[Caller]
    /\ gcsClient = "ok"
    /\ nextPhoto > 1
    /\ ~docs[req[Caller].item].exists
    /\ blobs = {}


\* the store calls of the final metadata step of the deleting sagas
FinalSteps(op) ==
    IF op = "delete_photo" THEN {"r_check", "r_read", "r_write", "r_readback"}
    ELSE IF op = "delete_item" THEN {"d_read", "d_delete"}
    ELSE {}

\* the Caller's deleting saga is in its final metadata step, after its blob
\* step succeeded, and the store call of this step raises
FinalStepFails ==
    /\ pc[Caller] \in FinalSteps(req[Caller].op)
    /\ calls[Caller] \cap {"delete_photo_from_gcs",
                           "delete_multiple_photos_from_gcs"} # {}
    /\ faults' > faults

\* the metadata the Caller's deleting saga was to remove is stored after the
\* step and no blob is left where it points
OrphanMetadata ==
    LET d == docs'[req[Caller].item]
    IN  /\ d.exists
        /\ req[Caller].op = "delete_photo" =>
              /\ HasId(d.photos, req[Caller].photo)
              /\ FirstWithId(d.photos, req[Caller].photo).gcsPath \notin blobs'
        /\ req[Caller].op = "delete_item" =>
              /\ Len(d.photos) = req[Caller].n0
              /\ \A k \in 1..Len(d.photos) : d.photos[k].gcsPath \notin blobs'

DeleteReturns ==
    /\ req[Caller].op = "delete_item_and_photos"
    /\ pc[Caller] \in {"d_read", "d_delete"}
    /\ pc'[Caller] = "done"

\* what delete_item_and_photos does on every return: after True the document
\* is gone and no other document changed; on an id that is not stored (never
\* created, or deleted by the call before) a healthy store gives True and
\* nothing changes
DeleteIdempotent ==
    LET i == req[Caller].item
    IN  /\ res'[Caller] = "True" =>
              /\ ~docs'[i].exists
              /\ \A j \in ItemIds \ {i} : docs'[j] = docs[j]
        /\ (~docs[i].exists /\ NoFaultStep) =>
              /\ res'[Caller] = "True"
              /\ docs' = docs

\* C17 (as stated): delete_item_and_photos is idempotent (a second call in a
\* row returns True again and changes nothing), returns True for an id that
\* never existed, and returns False only on a store fault
C17_DeleteIdempotentFalseOnlyOnFault ==
    [][DeleteReturns
         => /\ DeleteIdempotent
            /\ res'[Caller] = "False" => faults' > faults]_vars

\* C17 (amended): as stated, but False is returned on a store fault and also,
\* with a healthy store, when the caller names a user and the document
\* belongs to somebody else
C17_DeleteIdempotentFalseOnFaultOrForeign ==
    [][DeleteReturns
         => /\ DeleteIdempotent
            /\ res'[Caller] = "False" =>
                  \/ faults' > faults
                  \/ /\ docs[req[Caller].item].exists
                     /\ req[Caller].user \in Users
                     /\ docs[req[Caller].item].user_id # req[Caller].user
                     /\ docs' = docs
            /\ (/\ docs[req[Caller].item].exists
                /\ req[Caller].user \in Users
                /\ docs[req[Caller].item].user_id # req[Caller].user
                /\ NoFaultStep) => res'[Caller] = "False"]_vars

\* C17 case: delete_item_and_photos has returned True for the id of an item
\* that was created and deleted earlier
C17_Witness ==
    /\ Done(Caller)
    /\ req[Caller].op = "delete_item_and_photos"
    /\ req[Caller].item = "i1"
    /\ req[Caller].case = "missing"
    /\ nextItem > 1
    /\ res[Caller] = "True"
    /\ ~docs["i1"].exists


\* the Caller runs remove_photo_from_item, called directly
Removing == req[Caller].op = "remove_photo_from_item" /\ pc[Caller] \notin {"idle", "done"}

\* a stored list without the entries of one photo id
Without(photos, photo_id) == SelectSeq(photos, LAMBDA e : e.id # photo_id)

\* C18: remove_photo_from_item takes out exactly the entries with the photo
\* id and keeps every other entry, fields and order unchanged; when no entry
\* has the id it writes nothing and returns the item, so a second removal
\* leaves the list the first one stored
C18_RemoveById ==
    [][Removing
         => LET i == req[Caller].item
                old == docs[i].photos
                new == docs'[i].photos
            IN  /\ \A j \in ItemIds \ {i} : docs'[j] = docs[j]
                /\ new \in {old, Without(old, req[Caller].photo)}
                /\ Without(new, req[Caller].photo) = new \/ new = old
                /\ ~HasId(old, req[Caller].photo) => docs' = docs
                /\ (pc[Caller] = "r_write" /\ NoFaultStep /\ docs[i].exists)
                      => new = Without(old, req[Caller].photo)
                /\ (/\ pc'[Caller] = "done"
                    /\ NoFaultStep
                    /\ req[Caller].case = "own"
                    /\ docs[i].exists)
                      => /\ res'[Caller] = "Item"
                         /\ ~HasId(new, req[Caller].photo)]_vars

\* C18 case: remove_photo_from_item has taken one photo out of a list of two
\* and the other is stored as it was, uploadedTimezone included
C18_Witness ==
    /\ Done(Caller)
    /\ req[Caller].op = "remove_photo_from_item"
    /\ res[Caller] = "Item"
    /\ req[Caller].n0 = 2
    /\ LET photos == docs[req[Caller].item].photos
       IN  /\ Len(photos) = 1
           /\ photos[1].id # req[Caller].photo
           /\ photos[1].uploadedTimezone = "UTC"


\* C19 (as stated): update_photo_details_in_item changes, in the stored list,
\* only the fields given of the entry with the photo id; every other field of
\* that entry and every other entry stay exactly as stored; with the id
\* absent it returns None and writes nothing
C19_UpdateFieldsFrame ==
    [][(/\ req[Caller].op = "update_photo_details_in_item"
        /\ pc[Caller] \notin {"idle", "done"})
         => LET i == req[Caller].item
                old == docs[i].photos
                new == docs'[i].photos
            IN  /\ Len(new) = Len(old)
                /\ \A k \in 1..Len(old) :
                      new[k] = IF old[k].id = req[Caller].photo /\ pc[Caller] = "f_write"
                                  /\ docs' # docs
                               THEN [old[k] EXCEPT !.stage = req[Caller].stage]
                               ELSE old[k]
                /\ (/\ pc[Caller] = "f_read"
                    /\ NoFaultStep
                    /\ ~HasId(old, req[Caller].photo))
                      => /\ pc'[Caller] = "done"
                         /\ res'[Caller] = "None"
                         /\ docs' = docs]_vars

\* C19 case: update_photo_details_in_item has returned the updated photo of
\* an item
C19_Witness ==
    /\ Done(Caller)
    /\ req[Caller].op = "update_photo_details_in_item"
    /\ res[Caller] = "Item"
    /\ HasId(docs[req[Caller].item].photos, req[Caller].photo)

\* the operations that are not to write isPrimary
NotPrimaryWriters == {"update_photo_details_in_item", "remove_photo_from_item",
                      "update_item_metadata"}

\* C20 (as stated): update_photo_details_in_item, remove_photo_from_item and
\* update_item_metadata leave the stored isPrimary of every photo entry that
\* remains in the list as it was
C20_OnlyWritersTouchPrimary ==
    [][(req[Caller].op \in NotPrimaryWriters /\ pc[Caller] \notin {"idle", "done"})
         => \A i \in ItemIds :
              \A k \in 1..Len(docs[i].photos) : \A j \in 1..Len(docs'[i].photos) :
                 docs'[i].photos[j].id = docs[i].photos[k].id
                    => docs'[i].photos[j].isPrimary = docs[i].photos[k].isPrimary]_vars

\* C20 case: update_photo_details_in_item has returned after rewriting the
\* list of an item; no entry is marked primary, a rewritten entry is there
C20_Witness ==
    /\ Done(Caller)
    /\ req[Caller].op = "update_photo_details_in_item"
    /\ res[Caller] = "Item"
    /\ req[Caller].n0 >= 1
    /\ Primaries(docs[req[Caller].item].photos) = {}
    /\ \E k \in 1..Len(docs[req[Caller].item].photos) :
          docs[req[Caller].item].photos[k].uploadedTimezone = Absent


\* C21 (as stated): no two entries of the photos list of one item have the
\* same id, also after add_photo_to_item appended a Photo whose id an entry
\* of the list already has
C21_UniquePhotoIds ==
    \A i \in ItemIds :
       \A j, k \in 1..Len(docs[i].photos) :
          docs[i].photos[j].id = docs[i].photos[k].id => j = k

\* C21 case: add_photo_to_item has returned the item after appending a Photo
\* to a list that had entries, and the list is as long as before: the entry
\* was equal in every field to one of the list and ArrayUnion added nothing
C21_Witness ==
    /\ Done(Caller)
    /\ req[Caller].op = "add_photo_to_item"
    /\ res[Caller] = "Item"
    /\ req[Caller].n0 >= 1
    /\ Len(docs[req[Caller].item].photos) = req[Caller].n0
    /\ HasId(docs[req[Caller].item].photos, req[Caller].photo)


\* the paths of a list handed to delete_multiple_photos_from_gcs
Listed(paths) == {paths[k] : k \in 1..Len(paths)}

\* C22: when delete_multiple_photos_from_gcs returns, it returns True exactly
\* when no delete raised (every path was deleted or was not there), and True on
\* the empty list; every path is tried: of the listed paths at most as many
\* blobs are left as deletes raised, also when an earlier delete raised; no
\* blob outside the list is touched
C22_DeleteManyBestEffort ==
    [][(/\ pc[Caller] = "delete_multiple_photos_from_gcs"
        /\ pc'[Caller] = "done"
        /\ res'[Caller] # "ConnectionError")
         => LET listed == Listed(req[Caller].paths)
            IN  /\ res'[Caller] \in {"True", "False"}
                /\ (res'[Caller] = "True") <=> (faults' = faults)
                /\ res'[Caller] = "True" => listed \cap blobs' = {}
                /\ Cardinality(listed \cap blobs') <= faults' - faults
                /\ blobs' \subseteq blobs
                /\ blobs \ listed \subseteq blobs'
                /\ req[Caller].paths = <<>> => res'[Caller] = "True"]_vars

\* C22 case: delete_multiple_photos_from_gcs has returned False for a list of
\* two paths; the blob of the first path is still there (its delete raised),
\* the blob of the second is not
C22_Witness ==
    /\ Done(Caller)
    /\ req[Caller].op = "delete_multiple_photos_from_gcs"
    /\ res[Caller] = "False"
    /\ Len(req[Caller].paths) = 2
    /\ req[Caller].paths[1] \in blobs
    /\ req[Caller].paths[2] \notin blobs
    /\ faults = 1
    /\ Cardinality(blobs) = 1
    /\ nreq = 3

\* C23 (as stated): generate_signed_url returns None, and raises nothing,
\* whenever no blob exists at the path
C23_NoBlobNoUrl ==
    (/\ Done(Caller)
     /\ req[Caller].op = "generate_signed_url"
     /\ _get_gcs_path(req[Caller].item, req[Caller].photo) \notin blobs)
      => res[Caller] = "None"

\* C23 case: generate_signed_url has returned for a path whose blob was
\* uploaded and then deleted
C23_Witness ==
    /\ Done(Caller)
    /\ req[Caller].op = "generate_signed_url"
    /\ res[Caller] \notin {"ConnectionError"}
    /\ _get_gcs_path(req[Caller].item, req[Caller].photo) \notin blobs
    /\ gcsClient = "ok"
    /\ nreq = 3
    /\ blobs = {}
    /\ faults = 0


\* a client whose construction has raised
ConstructionFailed(client) == client \in {"failed", "attempted"}

\* C24 (as stated): the constructor of each client runs at most once: a built
\* client stays the handle every call gets, and after a construction that
\* raised, whatever it raised, no call builds the client again or succeeds:
\* the state of the client stays as the failure left it
C24_ConstructedAtMostOnce ==
    [][/\ fsClient = "ok" => fsClient' = "ok"
       /\ gcsClient = "ok" => gcsClient' = "ok"
       /\ ConstructionFailed(fsClient) => fsClient' = fsClient
       /\ ConstructionFailed(gcsClient) => gcsClient' = gcsClient]_vars

\* C24 case: the construction of the Firestore client failed in an earlier
\* call, and a later call has been answered with ConnectionError
C24_Witness ==
    /\ Done(Caller)
    /\ req[Caller].op \in ServiceOps
    /\ res[Caller] = "ConnectionError"
    /\ ConstructionFailed(fsClient)
    /\ nreq >= 2


\* C25: the user_id of an item is the caller of the create_item that made it,
\* and it is the same after every step of every operation, by whichever
\* caller, for as long as the document exists
C25_OwnerNeverChanges ==
    [][\A i \in ItemIds :
          /\ (docs[i].exists /\ docs'[i].exists)
                => docs'[i].user_id = docs[i].user_id
          /\ (~docs[i].exists /\ docs'[i].exists)
                => /\ req[Caller].op = "create_item"
                   /\ docs'[i].user_id = req[Caller].user
                   /\ docs'[i].user_id \in Users]_vars

\* C25 case: an unscoped update_item_metadata has written the name of an item
\* and returned it; the item has the owner it was created with
C25_Witness ==
    /\ Done(Caller)
    /\ req[Caller].op = "update_item_metadata"
    /\ req[Caller].user = None
    /\ req[Caller].name = "Bowl"
    /\ res[Caller] = "Item"
    /\ docs[req[Caller].item].exists
    /\ docs[req[Caller].item].name = "Bowl"
    /\ docs[req[Caller].item].user_id \in Users


\* C26: when the delete_photo_from_gcs that upload_photo makes after a failed
\* add_photo_to_item fails itself, the request still ends with the status the
\* failed append had decided (404, 500 or 503), the one it ends with when the
\* cleanup succeeds; a cleanup made before the last one leaves that status
\* as it was
C26_CleanupFailureKeepsOutcome ==
    [][\A p \in Procs :
          /\ (pc[p] = "up_cleanup" /\ pc'[p] # "up_cleanup")
                => /\ pc'[p] = "done"
                   /\ res'[p] = loc[p].out
                   /\ res'[p] \in {"404", "500", "503"}
          /\ (pc[p] = "up_cleanup_first" /\ pc'[p] # "up_cleanup_first")
                => /\ pc'[p] = "up_cleanup"
                   /\ loc'[p].out = loc[p].out]_vars

\* C26 case: upload_photo has ended with 404 after the item was deleted under
\* it, and its last cleanup of the blob failed
C26_Witness ==
    \E p \in Procs :
       /\ Done(p)
       /\ req[p].op = "upload_photo"
       /\ res[p] = "404"
       /\ loc[p].out = "False"
       /\ loc[p].path \in blobs


\* no store call has failed and both clients can be used
Healthy == faults = 0 /\ fsClient = "ok" /\ ~ConstructionFailed(gcsClient)

\* every request so far was a request of Caller to a handler
OnlyCaller == \A p \in Procs \ {Caller} : req[p].op = "none"

\* C27 (as stated): the reference scenario with healthy stores, the requests
\* sent to the handlers by one caller, one after another.  create_item
\* leaves photos = []; the upload to the empty list leaves one entry, primary;
\* the upload to that list leaves the first entry primary and a second entry
\* not primary; set_primary_photo of the second entry leaves the first not
\* primary and the second primary; delete_item leaves no document and no blob
\* of the item
C27_ReferenceScenario ==
    (Done(Caller) /\ Healthy /\ OnlyCaller)
      => LET r == req[Caller]
             ph == docs[r.item].photos
             image == r.case = "own" /\ r.ctype = "image/jpeg"
         IN  /\ (r.op = "create_item" /\ res[Caller] = "Item")
                  => /\ nextItem >= 2
                     /\ docs[ItemOrder[nextItem - 1]].photos = <<>>
             /\ (r.op = "upload_photo" /\ image /\ r.n0 = 0)
                  => /\ res[Caller] = "2xx"
                     /\ Len(ph) = 1
                     /\ ph[1].isPrimary = "true"
             /\ (r.op = "upload_photo" /\ image /\ r.n0 = 1)
                  => /\ res[Caller] = "2xx"
                     /\ Len(ph) = 2
                     /\ ph[1].isPrimary = "true"
                     /\ ph[2].isPrimary = "false"
             /\ (/\ r.op = "photos.set_primary_photo"
                 /\ r.case = "own"
                 /\ Len(ph) = 2
                 /\ ph[2].id = r.photo
                 /\ ph[1].id # r.photo)
                  => /\ res[Caller] = "2xx"
                     /\ ph[1].isPrimary = "false"
                     /\ ph[2].isPrimary = "true"
             /\ (r.op = "delete_item" /\ r.case = "own")
                  => /\ res[Caller] = "2xx"
                     /\ ~docs[r.item].exists
                     /\ \A k \in PhotoIds : _get_gcs_path(r.item, k) \notin blobs

\* C27 case: the second upload of the scenario has ended: the owner uploaded
\* an image to the item whose list holds the photo of the first upload, its
\* blob in the bucket, no store call failed
C27_Witness ==
    /\ Done(Caller)
    /\ Healthy
    /\ OnlyCaller
    /\ gcsClient = "ok"
    /\ req[Caller].op = "upload_photo"
    /\ req[Caller].case = "own"
    /\ req[Caller].ctype = "image/jpeg"
    /\ req[Caller].n0 = 1
    /\ Len(docs[req[Caller].item].photos) = 1
    /\ docs[req[Caller].item].photos[1].gcsPath \in blobs
    /\ nreq = 3


\* the steps that write a whole photos list back
ListWriters == {"s_write", "r_write", "f_write"}

\* C28: set_primary_photo, remove_photo_from_item and
\* update_photo_details_in_item write back the list they built from their own
\* read: after the write the stored list is that list, whatever another
\* request has written to the item in between
C28_WriteBackOverwrites ==
    [][\A p \in Procs :
          (/\ pc[p] \in ListWriters
           /\ pc'[p] # pc[p]
           /\ faults' = faults
           /\ docs[req[p].item].exists)
             => docs'[req[p].item].photos = loc[p].list]_vars

\* C28 case, the lost update: remove_photo_from_item has returned the item
\* and set_primary_photo of the same photo, which read the list before the
\* removal was written, has returned the photo; the removed entry is in the
\* stored list
C28_Witness ==
    \E p, q \in Procs :
       /\ Done(p) /\ Done(q)
       /\ req[p].op = "remove_photo_from_item"
       /\ res[p] = "Item"
       /\ req[q].op = "set_primary_photo"
       /\ res[q] = "Item"
       /\ req[q].photo = req[p].photo
       /\ HasId(docs["i1"].photos, req[p].photo)
       /\ faults = 0


\* the step that ends the repetition of a delete_photo or delete_item that
\* had failed in its blob delete or in its last service call, no store call
\* having failed since the repetition started
RetryEnds ==
    /\ req[Caller].retry # "none"
    /\ pc[Caller] # "done"
    /\ pc'[Caller] = "done"
    /\ faults' = req[Caller].f0
    /\ fsClient' = "ok"
    /\ ~ConstructionFailed(gcsClient')

\* after the step neither the blobs nor the metadata of the request are left
NothingLeft ==
    LET r == req[Caller]
    IN  IF r.op = "delete_photo"
        THEN /\ _get_gcs_path(r.item, r.photo) \notin blobs'
             /\ ~HasId(docs'[r.item].photos, r.photo)
        ELSE /\ ~docs'[r.item].exists
             /\ \A k \in 1..Len(docs[r.item].photos) :
                   docs[r.item].photos[k].gcsPath \notin blobs'

GcsLabels == {"up_put", "up_cleanup_first", "up_cleanup", "dp_blob", "di_blobs",
              "sp_url"}

\* the steps whose fault the code answers by design without an error: the
\* cleanups of upload_photo and the signed URL of the response
Absorbing == {"up_cleanup_first", "up_cleanup", "sp_url"}

\* the store call of the step found its client unusable
Unavailable(p) ==
    IF pc[p] \in GcsLabels THEN ConstructionFailed(gcsClient')
    ELSE ConstructionFailed(fsClient')

\* the step ends the request with status, or leaves it to the cleanup of
\* upload_photo to end it with status
Reported(p, status) ==
    \/ pc'[p] = "done" /\ res'[p] = status
    \/ pc'[p] \in {"up_cleanup_first", "up_cleanup"} /\ loc'[p].out = status

\* the outcomes of a request to a handler
SagaOutcomes == {"2xx", "404", "422", "503", "500"}

\* C30 (as stated): in upload_photo, delete_photo, delete_item and the
\* set_primary_photo handler, a store call that finds its client unusable
\* ends the request with 503, a store call that raises anything else ends it
\* with 500, and every request ends with success, 404, 422, 503 or 500,
\* never with an exception the handler did not turn into one of these
C30_FaultsClassified ==
    [][(req[Caller].op \in RouterOps /\ pc[Caller] \notin {"idle", "done"})
         => /\ Unavailable(Caller) => Reported(Caller, "503")
            /\ (faults' > faults /\ pc[Caller] \notin Absorbing)
                  => Reported(Caller, "500")
            /\ pc'[Caller] = "done" => res'[Caller] \in SagaOutcomes]_vars

\* C30 case: delete_photo has ended with 503 after its blob delete found the
\* storage client unusable, the Firestore client working
C30_Witness ==
    /\ Done(Caller)
    /\ req[Caller].op = "delete_photo"
    /\ res[Caller] = "503"
    /\ fsClient = "ok"
    /\ ConstructionFailed(gcsClient)
    /\ "delete_photo_from_gcs" \in calls[Caller]


\* the document a request is addressed to: the one named by item_id, for
\* create_item the one items_collection.document() hands out next
Addressed(p) ==
    IF req[p].op = "create_item" THEN ItemOrder[nextItem] ELSE req[p].item

\* the blobs under items/{i}/
BlobsOf(i) == {b \in blobs : b[1] = i}

\* C31: a step of a request addressed to item A leaves the document and the
\* blobs of every other item B as they were, whatever the other worker is
\* doing at the time
C31_OtherItemsUntouched ==
    [][\A p \in Procs :
          (pc'[p] # pc[p] /\ pc[p] \notin {"idle", "done"})
             => \A B \in ItemIds \ {Addressed(p)} :
                   /\ docs'[B] = docs[B]
                   /\ BlobsOf(B)' = BlobsOf(B)]_vars

\* C31 case: delete_item on i1 has ended with success while the upload of
\* the other worker to i2 is in flight after its write; the photo and the
\* blob of i2 are there
C31_Witness ==
    /\ Done("w1")
    /\ req["w1"].op = "delete_item"
    /\ req["w1"].item = "i1"
    /\ res["w1"] = "2xx"
    /\ req["w2"].op = "upload_photo"
    /\ req["w2"].item = "i2"
    /\ pc["w2"] = "a_readback"
    /\ Len(docs["i2"].photos) = 1
    /\ BlobsOf("i2") = {docs["i2"].photos[1].gcsPath}
    /\ ~docs["i1"].exists


\* a step of update_item_metadata
Updating ==
    /\ req[Caller].op = "update_item_metadata"
    /\ pc[Caller] \in {"u_read", "u_write", "u_readback"}

\* C32: update_item_metadata changes nothing but the fields its patch holds:
\* a field of the item is after every step what it was or what the patch
\* says, a field the patch leaves out is what it was, the photos list, the
\* owner, the other documents and the blobs are what they were, and nothing
\* is written when the document is missing or belongs to somebody else
C32_UpdateWritesOnlyThePatch ==
    [][Updating =>
          LET r == req[Caller]
              d == docs[r.item]
          IN  /\ \A i \in ItemIds \ {r.item} : docs'[i] = docs[i]
              /\ blobs' = blobs
              /\ docs'[r.item].photos = d.photos
              /\ docs'[r.item].user_id = d.user_id
              /\ docs'[r.item].exists = d.exists
              /\ docs'[r.item].name \in {d.name, r.name}
              /\ docs'[r.item].note \in
                    (IF r.note = Absent THEN {d.note} ELSE {d.note, r.note})
              /\ (~d.exists \/ (r.user \in Users /\ d.user_id # r.user))
                    => docs' = docs]_vars

\* C32 case: an update that names the item "Bowl" and holds no note has
\* returned the item; the name is written, the note of an earlier update and
\* the photo of the item are as they were
C32_Witness ==
    /\ Done(Caller)
    /\ req[Caller].op = "update_item_metadata"
    /\ res[Caller] = "Item"
    /\ req[Caller].name = "Bowl"
    /\ req[Caller].note = Absent
    /\ docs[req[Caller].item].name = "Bowl"
    /\ docs[req[Caller].item].note = "glazed"
    /\ Len(docs[req[Caller].item].photos) = 1


\* C33 (as stated): between the requests of a sequence of uploads and
\* set-primary requests served one at a time by stores that never failed, an
\* item with a photo has exactly one photo marked primary
C33_ExactlyOnePrimary ==
    (pc[Caller] \in {"idle", "done"} /\ faults = 0
        /\ ~ConstructionFailed(fsClient) /\ ~ConstructionFailed(gcsClient))
      => \A i \in ItemIds :
            docs[i].photos # <<>> => Cardinality(Primaries(docs[i].photos)) = 1

\* C33 case: the first upload to an item has returned success with healthy
\* stores and the one photo of the item is not marked primary
C33_Witness ==
    /\ Done(Caller)
    /\ req[Caller].op = "upload_photo"
    /\ res[Caller] = "2xx"
    /\ faults = 0
    /\ fsClient = "ok" /\ gcsClient = "ok"
    /\ Len(docs[req[Caller].item].photos) = 1
    /\ Primaries(docs[req[Caller].item].photos) = {}


\* upload_photo has returned after calling delete_photo_from_gcs for the
\* blob it had uploaded
Compensated ==
    /\ Done(Caller)
    /\ req[Caller].op = "upload_photo"
    /\ "delete_photo_from_gcs" \in calls[Caller]

\* C34 (as stated): when upload_photo has made its compensating delete, the
\* stored photos list of the item holds no entry with the id of the new photo
C34_CompensationOnlyWithoutEntry ==
    Compensated => ~HasId(docs[req[Caller].item].photos, loc[Caller].pid)

\* C34 case: the compensating delete has removed the blob of a photo whose
\* entry add_photo_to_item had written before its read-back raised
C34_Witness ==
    /\ Compensated
    /\ res[Caller] = "500"
    /\ "get_item_by_id" \in calls[Caller]
    /\ HasId(docs[req[Caller].item].photos, loc[Caller].pid)
    /\ loc[Caller].path \notin blobs
    /\ loc[Caller].out = "True"


\* the two workers have served, after create_item, one upload_photo each to
\* the same item and both have returned success; the second upload read the
\* item before the first had written, or it would not have got that far
BothUploaded ==
    /\ nreq = 3
    /\ \A p \in Procs :
          Done(p) /\ req[p].op = "upload_photo" /\ res[p] = "2xx"
    /\ req["w1"].item = req["w2"].item

\* the step in which the add_photo_to_item of an upload writes its entry
Appends(p) ==
    /\ req[p].op = "upload_photo"
    /\ pc[p] = "a_write"
    /\ pc'[p] = "a_readback"

\* C35: the write of an upload keeps every entry the stored list holds at
\* that moment and adds its own, and when two concurrent uploads to one item
\* have both returned success the list holds the entries of both
C35_ConcurrentUploadsBothListed ==
    [][/\ \A p \in Procs :
             Appends(p) =>
                LET old == docs[req[p].item].photos
                    new == docs'[req[p].item].photos
                IN  /\ Len(new) = Len(old) + 1
                    /\ \A k \in 1..Len(old) : new[k] = old[k]
                    /\ new[Len(new)].id = loc[p].pid
       /\ BothUploaded' =>
             \A ph \in 1..2 : HasId(docs'[req'["w1"].item].photos, ph)]_vars

\* C35 case: two uploads to one item, served at once, have both returned
\* success and the list holds two entries
C35_Witness ==
    /\ BothUploaded
    /\ Len(docs[req["w1"].item].photos) = 2
    /\ faults = 0


\* one worker has served delete_item, the other upload_photo on the same
\* item, both have returned and no store call has failed
DeletedAndUploaded(d, u) ==
    /\ Done(d) /\ req[d].op = "delete_item"
    /\ Done(u) /\ req[u].op = "upload_photo"
    /\ req[d].item = req[u].item
    /\ faults = 0
    /\ ~ConstructionFailed(fsClient) /\ ~ConstructionFailed(gcsClient)

\* the blob is the gcsPath of a photo entry of an existing document
Referenced(b) ==
    \E i \in ItemIds :
        /\ docs[i].exists
        /\ \E k \in 1..Len(docs[i].photos) : docs[i].photos[k].gcsPath = b

\* C36 (as stated): when a delete_item and an upload_photo on the same item
\* have both returned, in whatever order their steps were taken, every blob
\* under the item is referenced by a photo entry of an existing document
C36_NoOrphanAfterDeleteAndUpload ==
    \A d, u \in Procs :
        DeletedAndUploaded(d, u) => \A b \in BlobsOf(req[d].item) : Referenced(b)

\* C36 case: delete_item and upload_photo on one item have both returned
\* success with healthy stores; the document is gone and the blob of the
\* upload is there
C36_Witness ==
    /\ DeletedAndUploaded("w1", "w2")
    /\ res["w1"] = "2xx"
    /\ res["w2"] = "2xx"
    /\ ~docs[req["w1"].item].exists
    /\ BlobsOf(req["w1"].item) # {}


\* the gcsPath values of all photo entries of the stored documents
StoredPaths == UNION {Paths(docs[i].photos) : i \in ItemIds}

\* no request is being served and no store call has failed
BetweenSagas ==
    /\ pc[Caller] \in {"idle", "done"}
    /\ faults = 0
    /\ ~ConstructionFailed(fsClient) /\ ~ConstructionFailed(gcsClient)

\* C37: with healthy stores and the handlers called one at a time, between
\* two requests the paths at which a blob exists are exactly the gcsPath
\* values of the photo entries of the stored documents
C37_BlobsMatchMetadata == BetweenSagas => blobs = StoredPaths

\* C37 case: delete_photo has returned success with healthy stores; the item
\* is there without photos and no blob is left
C37_Witness ==
    /\ BetweenSagas
    /\ Done(Caller)
    /\ req[Caller].op = "delete_photo"
    /\ res[Caller] = "2xx"
    /\ docs[req[Caller].item].exists
    /\ docs[req[Caller].item].photos = <<>>
    /\ blobs = {}


\* a step of get_item_by_id or delete_item_and_photos called with a user_id,
\* the empty string included
ScopedStep ==
    /\ req[Caller].op \in {"get_item_by_id", "delete_item_and_photos"}
    /\ req[Caller].user # None
    /\ pc[Caller] \notin {"idle", "done"}

\* C38 (as stated): a call that hands in a user_id, the empty string
\* included, gets the item or deletes the document only when the stored
\* user_id equals the one handed in
C38_ScopedByEquality ==
    [][ScopedStep =>
          ((res'[Caller] = "Item" \/ docs' # docs)
              => docs[req[Caller].item].user_id = req[Caller].user)]_vars

\* C38 case: get_item_by_id called with the empty string as user_id has
\* returned the item of a user
C38_Witness ==
    /\ Done(Caller)
    /\ req[Caller].op = "get_item_by_id"
    /\ req[Caller].user = ""
    /\ res[Caller] = "Item"
    /\ docs[req[Caller].item].user_id \in Users

====
